---- MODULE Spec2Model ----
(***************************************************************************)
(* Model of the scheduler runtime of Scale: one RunningJobExecution        *)
(* (job/execution/running/job_exe.py) with its ordered tasks               *)
(* (tasks/exe_task.py), driven concurrently by status-update threads, the  *)
(* thread that starts tasks, the node-lost path and the database sync      *)
(* thread (scheduler/threads/db_sync.py).                                  *)
(*                                                                         *)
(* Granularity: a region executed under RunningJobExecution._lock is one   *)
(* atomic step; a read of self._current_task made without the lock, and a  *)
(* database transaction, are steps of their own, so every interleaving the *)
(* lock admits is a behaviour of the model.                                *)
(***************************************************************************)
EXTENDS Integers, Sequences, FiniteSets

\* ------------------------------------------------------------------ bounds
\* Calls of handle_job_completion that are followed (a LOST update racing
\* with a FINISHED update can complete the same execution again and again).
MaxCompletions == 2
\* Calls of execution_canceled / execution_timed_out / execution_lost made
\* directly on the execution (outside a modelled sync tick).
MaxTeardowns == 1
\* Largest count of recent node failures / value of max_node_errors drawn.
MaxCount == 2
\* Largest num_exes / max_tries drawn.
MaxTriesBound == 2

\* --------------------------------------------------------------- constants
None == "None"
\* The tasks an execution can own: PreTask, JobTask, PostTask; a task is
\* identified with its task id.
TaskIds == {"pre", "job", "post"}
\* Threads delivering task status updates (task_update callers).
IngressThreads == {"u1", "u2"}
\* Threads that tear the execution down: the sync thread (execution_canceled,
\* execution_timed_out) and the node-lost path (execution_lost).
TeardownThreads == {"sync", "node"}
\* List objects that self._remaining_tasks and the snapshots can refer to:
\* one for the execution and one per snapshot holder, plus the one being
\* allocated.
ListIds == 0 .. (Cardinality(IngressThreads) + 1)
ErrorCategories == {"SYSTEM", "ALGORITHM", "DATA"}
PauseReason == "System Failure Rate Too High"
NoQ == [none |-> TRUE]
\* No list object (a handler that holds no snapshot).
NoRef == -1
\* No row read by the sync thread yet.
NoRow == [status |-> None, timed_out |-> FALSE]
\* The id of the modelled job execution.
ExeId == 1
\* DatabaseSyncThread.THROTTLE, in seconds.
THROTTLE == 10
\* Resolution of the clock: total_seconds() is a fraction of a second, the
\* model counts time in 1/TicksPerSecond of a second.
TicksPerSecond == 2
\* Longest tick the model follows, in 1/TicksPerSecond of a second.
MaxElapsed == 21
\* Most exceptions that leave a tick.
MaxRaises == 2
\* The threads that construct cleanup tasks.
CleanupThreads == {"c1", "c2"}
\* Latest timestamp of a task update.
MaxTimestamp == 2
\* Most CleanupTask constructions.
MaxCleanupTasks == 3
\* CLEANUP_TASK_ID_PREFIX
CLEANUP_TASK_ID_PREFIX == <<"scale_cleanup">>
\* Framework ids, as sequences of characters.
FrameworkIds == {<<"f">>, <<"f", "_", "1">>}

VARIABLES
    is_system,       \* job_exe.is_system
    all_tasks,       \* self._all_tasks
    current_task,    \* self._current_task (a task id or None)
    remaining_ref,   \* the list object self._remaining_tasks refers to
    heap,            \* contents of the list objects
    has_started,     \* Task._has_started, per task
    has_ended,       \* Task._has_ended, per task
    pc,              \* position of each status-update thread in its handler
    loc_task,        \* local current_task of the handler (task id)
    loc_rem,         \* local remaining_tasks of _task_complete (a list object)
    n_completion,    \* calls of Queue.handle_job_completion
    n_failure,       \* calls of Queue.handle_job_failure
    n_checkpoint,    \* job_exe.save() calls of execution_canceled
    fail_errors,     \* errors passed to handle_job_failure
    node,            \* the node row: is_paused, is_paused_errors, pause_reason
    n_node_save,     \* node.save() calls of the quarantine check
    q_obs,           \* database values read by the last quarantine check (observer)
    last_upd,        \* the task update dispatched last (observer)
    clean,           \* no LOST, FAILED or KILLED update was applied and no
                     \* execution_* method was called so far (observer)
    started_seq,     \* tasks returned by start_next_task, in order, recorded
                     \* while the history is clean (observer)
    ever_started,    \* tasks ever returned by start_next_task (observer)
    td_pc,           \* position of each thread inside an execution_* method
    n_teardown,      \* direct calls of the execution_* methods
    td_ret,          \* the task the last execution_* call of each thread returned
    torn_down,       \* execution_canceled/timed_out/lost has returned (observer)
    reported,        \* a terminal report to the store has returned (observer)
    finished_applied, \* tasks whose FINISHED update has been applied (observer)
    registry,        \* running_job_mgr: ids of the registered executions
    cleanup_queue,   \* cleanup_mgr: executions handed over by add_job_execution
    row_status,      \* JobExecution.status of the durable row
    timed_out,       \* JobExecution.is_timed_out(now) of the durable row
    sync_pc,         \* position of the database sync thread
    snapshot,        \* running_job_exes of the tick in progress
    sync_row,        \* job_exe_model read by the tick in progress
    task_to_kill,    \* task_to_kill of the tick in progress
    fin_ret,         \* value returned by is_finished() to the sync thread
    kills,           \* task ids passed to driver.killTask, in order
    age,             \* ticks started since the row became CANCELED or timed out
    running,         \* DatabaseSyncThread._running
    tick_error,      \* what the tick in progress or just ended raised:
                     \* "none", "database" (caught at the handler), "exception"
                     \* (caught in run) (observer)
    elapsed,         \* time since `started` of the tick in progress, in
                     \* 1/TicksPerSecond s (0 between ticks)
    slept,           \* `delay` of the throttle that ended the last tick, in
                     \* seconds (0: no sleep, or a tick is in progress)
    n_raise,         \* exceptions caught by run() so far
    counter,         \* COUNTER._counter
    counter_lock,    \* holder of COUNTER._lock (a thread or None)
    ct_pc,           \* position of each thread inside CleanupTask.__init__
    ct_tmp,          \* value of self._counter loaded by `self._counter += 1`
    ct_fw,           \* framework_id of the construction in progress
    cleanup_tasks,   \* the cleanup tasks constructed so far: the value
                     \* get_next() returned and the task id, in order
    task_obj         \* the fields complete() writes, per task: _has_ended,
                     \* _ended, _exit_code, _last_status_update

execVars == <<is_system, all_tasks, current_task, remaining_ref, heap>>
taskVars == <<has_started, has_ended>>
ingressVars == <<pc, loc_task, loc_rem>>
storeVars == <<n_completion, n_failure, n_checkpoint, fail_errors>>
nodeVars == <<node, n_node_save, q_obs>>
obsVars == <<clean, started_seq, ever_started, torn_down, reported, finished_applied,
            last_upd>>
lostVars == <<td_pc, n_teardown, td_ret>>
rowVars == <<row_status, timed_out>>
syncVars == <<registry, cleanup_queue, sync_pc, snapshot, sync_row, task_to_kill,
              fin_ret, kills, age>>
runVars == <<running, tick_error, elapsed, slept, n_raise>>
counterVars == <<counter, counter_lock, ct_pc, ct_tmp, ct_fw, cleanup_tasks>>
vars == <<execVars, taskVars, ingressVars, storeVars, nodeVars, obsVars, lostVars,
          rowVars, syncVars, runVars, counterVars, task_obj>>

\* ----------------------------------------------------------------- helpers
\* Python truthiness of a task reference and of a list.
TaskTruthy(t) == t # None
ListTruthy(l) == Len(l) > 0

\* list.insert(0, x) and list.pop(0)
Prepend(x, l) == <<x>> \o l
Rest(l) == SubSeq(l, 2, Len(l))

\* self._remaining_tasks, read through the reference
remaining_tasks == heap[remaining_ref]

\* List objects still referenced by a snapshot of some handler.
SnapshotRefs(lr) == {lr[th] : th \in IngressThreads} \ {NoRef}

\* Unreferenced list objects are garbage: their content is dropped.
Collect(h, live) == [i \in ListIds |-> IF i \in live THEN h[i] ELSE <<>>]

\* `[]`: a fresh list object, distinct from every list still referenced.
FreshList(lr) == CHOOSE i \in ListIds \ SnapshotRefs(lr) :
                    \A j \in ListIds \ SnapshotRefs(lr) : i <= j

\* Mutant of CreateTasks: the post-task is appended before the job-task.
CreateTasks_post_first(sys) == IF sys THEN <<"job">> ELSE <<"pre", "post", "job">>

\* RunningJobExecution.__init__: the tasks of a (non-)system job execution.
CreateTasks(sys) == IF sys THEN <<"job">> ELSE <<"pre", "job", "post">>

\* Mutant of is_finished: the execution never reports itself finished.
is_finished_never == FALSE

\* Mutant of is_finished: the remaining tasks are not looked at.
is_finished_current_only == ~TaskTruthy(current_task)

\* is_finished(): not self._current_task and not self._remaining_tasks
is_finished == ~TaskTruthy(current_task) /\ ~ListTruthy(remaining_tasks)

\* is_next_task_ready(): not self._current_task and self._remaining_tasks
is_next_task_ready == ~TaskTruthy(current_task) /\ ListTruthy(remaining_tasks)

\* Mutant of NoMatch: the task ids are not compared.
NoMatch_no_id(cur, task_id) == ~TaskTruthy(cur)

\* The guard shared by the four update handlers:
\* `not current_task or current_task.id != task_update.task_id`
NoMatch(cur, task_id) == ~TaskTruthy(cur) \/ cur # task_id

\* ------------------------------------------------------------ task methods
\* Task.update(task_update) on the task with id t: a RUNNING update marks the
\* task started; an update for another task id is ignored.
TaskUpdate(hs, t, u) ==
    IF t = u.task_id /\ u.status = "RUNNING" THEN [hs EXCEPT ![t] = TRUE] ELSE hs

\* Mutant of TaskComplete: _has_ended is not set.
TaskComplete_not_ended(he, t, task_id) == he

\* JobExecutionTask.complete(task_update) on the task with id t: sets
\* _has_ended (and nothing else among the lifecycle flags) when the ids match.
TaskComplete(he, t, task_id) ==
    IF t # task_id THEN he ELSE [he EXCEPT ![t] = TRUE]

\* The task updates a status-update thread can deliver.
Statuses == {"RUNNING", "FINISHED", "LOST", "FAILED", "KILLED"}
Updates == [task_id : TaskIds, status : Statuses]
NoUpd == [task_id |-> None, status |-> None, bit |-> 0]

\* Observer: remembers the dispatched update when obs is set.
Observe(u, obs) ==
    last_upd' = IF obs THEN [task_id |-> u.task_id, status |-> u.status,
                             bit |-> 1 - last_upd.bit]
                ELSE last_upd

\* --------------------------------------------- RunningJobExecution methods
\* Mutant of StartGuard: a task is started while another one is current.
StartGuard_ignore_current(cur, rem) == ListTruthy(rem)

\* start_next_task(), under the lock.
StartGuard(cur, rem) == ~(TaskTruthy(cur) \/ ~ListTruthy(rem))

\* Mutant of StartPop: the head is read but not removed.
StartPop_keep(rem) == rem

\* What self._remaining_tasks.pop(0) leaves in the list.
StartPop(rem) == Rest(rem)

start_next_task ==
    /\ IF StartGuard(current_task, remaining_tasks)
       THEN /\ current_task' = Head(remaining_tasks)
            /\ heap' = [heap EXCEPT ![remaining_ref] = StartPop(remaining_tasks)]
            /\ started_seq' = IF clean THEN Append(started_seq, Head(remaining_tasks))
                               ELSE started_seq
            /\ ever_started' = ever_started \cup {Head(remaining_tasks)}
       ELSE UNCHANGED <<current_task, heap, started_seq, ever_started>>
    /\ UNCHANGED <<is_system, all_tasks, remaining_ref>>
    /\ UNCHANGED <<taskVars, ingressVars, storeVars, nodeVars, lostVars>>
    /\ UNCHANGED <<clean, torn_down, reported, finished_applied, last_upd>>
    /\ UNCHANGED <<rowVars, syncVars>>
    /\ UNCHANGED runVars
    /\ UNCHANGED counterVars
    /\ UNCHANGED task_obj

\* Mutant of task_start: the RUNNING update is also checkpointed in the store.
task_start_checkpoint(th, u) ==
    /\ pc[th] = "idle"
    /\ u.status = "RUNNING"
    /\ IF NoMatch(current_task, u.task_id)
       THEN UNCHANGED has_started
       ELSE has_started' = TaskUpdate(has_started, current_task, u)
    /\ n_checkpoint' = n_checkpoint + 1
    /\ UNCHANGED <<execVars, has_ended, ingressVars, nodeVars, lostVars>>
    /\ UNCHANGED <<n_completion, n_failure, fail_errors>>
    /\ UNCHANGED <<clean, started_seq, ever_started, torn_down, reported, finished_applied>>
    /\ UNCHANGED <<rowVars, syncVars>>
    /\ UNCHANGED runVars
    /\ UNCHANGED counterVars
    /\ UNCHANGED task_obj

\* _task_start(task_update): reads self._current_task without the lock and
\* passes the update to the task.
task_start(th, u) ==
    /\ pc[th] = "idle"
    /\ u.status = "RUNNING"
    /\ IF NoMatch(current_task, u.task_id)
       THEN UNCHANGED has_started
       ELSE has_started' = TaskUpdate(has_started, current_task, u)
    /\ UNCHANGED <<execVars, has_ended, ingressVars, storeVars, nodeVars, lostVars>>
    /\ UNCHANGED <<clean, started_seq, ever_started, torn_down, reported, finished_applied>>
    /\ UNCHANGED <<rowVars, syncVars>>
    /\ UNCHANGED runVars
    /\ UNCHANGED counterVars
    /\ UNCHANGED task_obj

\* Mutant of Requeue: the lost task is not put back.
Requeue_drop(cur, rem) == rem

\* Mutant of Requeue: the lost task is appended instead of prepended.
Requeue_append(cur, rem) == Append(rem, cur)

\* _task_lost(task_update), all of it under the lock: the current task goes
\* back to the head of the remaining tasks.
Requeue(cur, rem) == Prepend(cur, rem)

\* Mutant of task_lost: without a current task, the task named by the update
\* is put back all the same.
task_lost_requeue_any(th, u) ==
    /\ pc[th] = "idle"
    /\ u.status = "LOST"
    /\ IF TaskTruthy(current_task) /\ NoMatch(current_task, u.task_id)
       THEN UNCHANGED <<current_task, heap, has_started, clean, started_seq>>
       ELSE /\ has_started' = TaskUpdate(has_started, u.task_id, u)
            /\ heap' = [heap EXCEPT ![remaining_ref] = <<u.task_id>>]
            /\ current_task' = None
            /\ clean' = FALSE
            /\ started_seq' = <<>>
    /\ UNCHANGED <<is_system, all_tasks, remaining_ref>>
    /\ UNCHANGED <<has_ended, ingressVars, storeVars, nodeVars, lostVars>>
    /\ UNCHANGED <<ever_started, torn_down, reported, finished_applied>>
    /\ UNCHANGED <<rowVars, syncVars>>
    /\ UNCHANGED runVars
    /\ UNCHANGED counterVars
    /\ UNCHANGED task_obj

task_lost(th, u) ==
    /\ pc[th] = "idle"
    /\ u.status = "LOST"
    /\ IF NoMatch(current_task, u.task_id)
       THEN UNCHANGED <<current_task, heap, has_started, clean, started_seq>>
       ELSE /\ has_started' = TaskUpdate(has_started, current_task, u)
            /\ heap' = [heap EXCEPT ![remaining_ref] =
                            Requeue(current_task, remaining_tasks)]
            /\ current_task' = None
            /\ clean' = FALSE
            /\ started_seq' = <<>>
    /\ UNCHANGED <<is_system, all_tasks, remaining_ref>>
    /\ UNCHANGED <<has_ended, ingressVars, storeVars, nodeVars, lostVars>>
    /\ UNCHANGED <<ever_started, torn_down, reported, finished_applied>>
    /\ UNCHANGED <<rowVars, syncVars>>
    /\ UNCHANGED runVars
    /\ UNCHANGED counterVars
    /\ UNCHANGED task_obj

\* _task_complete(task_update), first lock region: snapshot of
\* self._current_task and self._remaining_tasks (the list object, not a
\* copy), then the id check on the snapshot.
task_complete_begin(th, u) ==
    /\ pc[th] = "idle"
    /\ u.status = "FINISHED"
    /\ IF NoMatch(current_task, u.task_id)
       THEN UNCHANGED ingressVars
       ELSE /\ pc' = [pc EXCEPT ![th] = "complete_txn"]
            /\ loc_task' = [loc_task EXCEPT ![th] = current_task]
            /\ loc_rem' = [loc_rem EXCEPT ![th] = remaining_ref]
    /\ UNCHANGED <<execVars, taskVars, storeVars, nodeVars, lostVars>>
    /\ UNCHANGED <<clean, started_seq, ever_started, torn_down, reported, finished_applied>>
    /\ UNCHANGED <<rowVars, syncVars>>
    /\ UNCHANGED runVars
    /\ UNCHANGED counterVars
    /\ UNCHANGED task_obj

\* Mutant of LastTaskDone: every FINISHED update counts as the last one.
LastTaskDone_always(rem) == TRUE

\* `if not remaining_tasks:` of _task_complete, read through the snapshot.
LastTaskDone(rem) == ~ListTruthy(rem)

\* The durable row under Queue.handle_job_completion / handle_job_failure:
\* a RUNNING row becomes COMPLETED / FAILED, a terminal row keeps its status.
StoreCompletion(status) == IF status = "RUNNING" THEN "COMPLETED" ELSE status
StoreFailure(status) == IF status = "RUNNING" THEN "FAILED" ELSE status

\* _task_complete, the transaction: complete() on the snapshot task
\* (need_refresh is always False), then handle_job_completion when the
\* snapshot list is empty.
task_complete_txn(th) ==
    /\ pc[th] = "complete_txn"
    /\ has_ended' = TaskComplete(has_ended, loc_task[th], loc_task[th])
    /\ IF LastTaskDone(heap[loc_rem[th]])
       THEN /\ n_completion < MaxCompletions
            /\ n_completion' = n_completion + 1
            /\ row_status' = StoreCompletion(row_status)
            /\ pc' = [pc EXCEPT ![th] = "complete_publish_reported"]
       ELSE /\ UNCHANGED <<n_completion, row_status>>
            /\ pc' = [pc EXCEPT ![th] = "complete_publish"]
    /\ UNCHANGED <<execVars, has_started, loc_task, loc_rem>>
    /\ UNCHANGED <<n_failure, n_checkpoint, fail_errors, nodeVars, lostVars, obsVars>>
    /\ UNCHANGED <<timed_out, syncVars>>
    /\ UNCHANGED runVars
    /\ UNCHANGED counterVars
    /\ UNCHANGED task_obj

\* Mutant of PublishClears: the id check is not repeated.
PublishClears_any(cur, task_id) == TaskTruthy(cur)

\* _task_complete when handle_job_completion raises: complete() has already
\* been applied to the task (the transaction rolls back durable writes only),
\* the exception leaves the method and the second lock region is not reached.
task_complete_txn_fails(th) ==
    /\ pc[th] = "complete_txn"
    /\ LastTaskDone(heap[loc_rem[th]])
    /\ has_ended' = TaskComplete(has_ended, loc_task[th], loc_task[th])
    /\ pc' = [pc EXCEPT ![th] = "idle"]
    /\ loc_task' = [loc_task EXCEPT ![th] = None]
    /\ loc_rem' = [loc_rem EXCEPT ![th] = NoRef]
    /\ heap' = Collect(heap, SnapshotRefs(loc_rem') \cup {remaining_ref})
    /\ UNCHANGED <<is_system, all_tasks, current_task, remaining_ref>>
    /\ UNCHANGED <<has_started, storeVars, nodeVars, lostVars, obsVars>>
    /\ UNCHANGED <<rowVars, syncVars>>
    /\ UNCHANGED runVars
    /\ UNCHANGED counterVars
    /\ UNCHANGED task_obj

\* _task_complete, second lock region: clear the current task if it still
\* has the id of the update.
PublishClears(cur, task_id) == TaskTruthy(cur) /\ cur = task_id

task_complete_publish(th) ==
    /\ pc[th] \in {"complete_publish", "complete_publish_reported"}
    /\ current_task' = IF PublishClears(current_task, loc_task[th])
                       THEN None ELSE current_task
    /\ pc' = [pc EXCEPT ![th] = "idle"]
    /\ loc_task' = [loc_task EXCEPT ![th] = None]
    /\ loc_rem' = [loc_rem EXCEPT ![th] = NoRef]
    /\ heap' = Collect(heap, SnapshotRefs(loc_rem') \cup {remaining_ref})
    /\ reported' = (reported \/ pc[th] = "complete_publish_reported")
    /\ finished_applied' = finished_applied \cup {loc_task[th]}
    /\ UNCHANGED <<is_system, all_tasks, remaining_ref>>
    /\ UNCHANGED <<taskVars, storeVars, nodeVars, lostVars>>
    /\ UNCHANGED <<clean, started_seq, ever_started, torn_down, last_upd>>
    /\ UNCHANGED <<rowVars, syncVars>>
    /\ UNCHANGED runVars
    /\ UNCHANGED counterVars
    /\ UNCHANGED task_obj

\* The in-memory teardown shared by _task_fail, execution_canceled,
\* execution_lost and execution_timed_out, under the lock:
\*   self._current_task = None; self._remaining_tasks = []
\* Mutant of ClearCurrent: self._current_task is left as it is.
ClearCurrent_keep(cur) == cur

ClearCurrent(cur) == None

\* Mutant of ClearRemaining: self._remaining_tasks is left as it is.
ClearRemaining_keep(h, ref, lr) == [ref |-> ref, heap |-> h]

ClearRemaining(h, ref, lr) ==
    [ref |-> FreshList(lr),
     heap |-> [Collect(h, SnapshotRefs(lr)) EXCEPT ![FreshList(lr)] = <<>>]]

Teardown(lr) ==
    /\ current_task' = ClearCurrent(current_task)
    /\ remaining_ref' = ClearRemaining(heap, remaining_ref, lr).ref
    /\ heap' = ClearRemaining(heap, remaining_ref, lr).heap
    /\ UNCHANGED <<is_system, all_tasks>>

\* --------------------------------------------------------------- _task_fail
\* The reasons a task update can carry, as far as the code tells them apart.
Reasons == {"REASON_EXECUTOR_TERMINATED", "REASON_COMMAND_EXECUTOR_FAILED"}

\* What the transaction of _task_fail reads: whether the task's own
\* classification finds a specific error (determined), the task's
\* _uses_docker and the reason of the update, the category of the error
\* finally used (the determined one, else the unknown error), the job's
\* num_exes and max_tries, the node of the execution (possibly none) and
\* its is_paused, and the scheduler's node_error_period and
\* max_node_errors with the count of recent SYSTEM failures on the node.
DbReadings ==
    {q \in [determined : BOOLEAN, category : ErrorCategories,
            uses_docker : BOOLEAN, reason : Reasons,
            num_exes : 1 .. MaxTriesBound, max_tries : 1 .. MaxTriesBound,
            node_known : BOOLEAN, node_is_paused : BOOLEAN,
            node_error_period : -1 .. 1,
            num_node_errors : 0 .. MaxCount, max_node_errors : 1 .. MaxCount] :
        q.node_known \/ ~q.node_is_paused}

\* The name of the specific error a task's classification finds, by
\* category; None when it finds none.
DeterminedError(q) ==
    IF ~q.determined THEN None
    ELSE CASE q.category = "SYSTEM" -> "system-task-error"
           [] q.category = "ALGORITHM" -> "algorithm-task-error"
           [] OTHER -> "data-task-error"

\* Mutant of consider_general_error: the reason alone decides for a started
\* task, docker or not.
consider_general_error_any_runtime(started, uses_docker, reason) ==
    IF ~started
    THEN IF uses_docker THEN "docker-task-launch" ELSE "task-launch"
    ELSE IF reason = "REASON_EXECUTOR_TERMINATED"
         THEN "docker-terminated"
         ELSE None

\* JobExecutionTask._consider_general_error(task_update), on a task with
\* the given _has_started and _uses_docker.
consider_general_error(started, uses_docker, reason) ==
    IF ~started
    THEN IF uses_docker THEN "docker-task-launch" ELSE "task-launch"
    ELSE IF reason = "REASON_EXECUTOR_TERMINATED" /\ uses_docker
         THEN "docker-terminated"
         ELSE None

\* determine_error(task_update) of a task: its specific error, else the
\* general one.
determine_error(q, started) ==
    IF DeterminedError(q) # None THEN DeterminedError(q)
    ELSE consider_general_error(started, q.uses_docker, q.reason)

\* Mutant of ShouldPause: the failure count has to exceed max_node_errors.
ShouldPause_strict(q) ==
    /\ q.category = "SYSTEM"
    /\ q.num_exes >= q.max_tries
    /\ q.node_known
    /\ ~q.node_is_paused
    /\ q.node_error_period > 0
    /\ q.num_node_errors > q.max_node_errors

\* The nested conditions of _task_fail that lead to node.save().
ShouldPause(q) ==
    /\ q.category = "SYSTEM"
    /\ q.num_exes >= q.max_tries
    /\ q.node_known
    /\ ~q.node_is_paused
    /\ q.node_error_period > 0
    /\ q.num_node_errors >= q.max_node_errors

\* Two readings: a SYSTEM failure with no specific error that pauses the
\* node and a determined ALGORITHM failure that does not, both of a docker
\* task whose update carries no executor-terminated reason.
SampleReadings ==
    {[determined |-> (c # "SYSTEM"), category |-> c,
      uses_docker |-> TRUE, reason |-> "REASON_COMMAND_EXECUTOR_FAILED",
      num_exes |-> 1, max_tries |-> 1,
      node_known |-> TRUE, node_is_paused |-> FALSE,
      node_error_period |-> 1,
      num_node_errors |-> 1, max_node_errors |-> 1] :
        c \in {"SYSTEM", "ALGORITHM"}}

PausedNode == [is_paused |-> TRUE, is_paused_errors |-> TRUE,
               pause_reason |-> PauseReason]

\* _task_fail(task_update): the unlocked read of self._current_task and the
\* id check.
task_fail_begin(th, u) ==
    /\ pc[th] = "idle"
    /\ u.status \in {"FAILED", "KILLED"}
    /\ IF NoMatch(current_task, u.task_id)
       THEN UNCHANGED ingressVars
       ELSE /\ pc' = [pc EXCEPT ![th] = "fail_txn"]
            /\ loc_task' = [loc_task EXCEPT ![th] = current_task]
            /\ UNCHANGED loc_rem
    /\ UNCHANGED <<execVars, taskVars, storeVars, nodeVars, lostVars>>
    /\ UNCHANGED <<clean, started_seq, ever_started, torn_down, reported, finished_applied>>
    /\ UNCHANGED <<rowVars, syncVars>>
    /\ UNCHANGED runVars
    /\ UNCHANGED counterVars
    /\ UNCHANGED task_obj

\* _task_fail, the transaction: update(), determine_error(),
\* handle_job_failure with the determined error, then the quarantine check.
task_fail_txn(th, Readings, obs) ==
    /\ pc[th] = "fail_txn"
    /\ has_started' = TaskUpdate(has_started, loc_task[th],
                                 [task_id |-> loc_task[th], status |-> "FAILED"])
    /\ \E q \in Readings :
          /\ n_failure' = n_failure + 1
          /\ fail_errors' =
                 fail_errors \cup {determine_error(q, has_started'[loc_task[th]])}
          /\ row_status' = StoreFailure(row_status)
          /\ IF ShouldPause(q)
             THEN node' = PausedNode /\ n_node_save' = n_node_save + 1
             ELSE UNCHANGED <<node, n_node_save>>
          /\ q_obs' = IF obs THEN q ELSE q_obs
    /\ pc' = [pc EXCEPT ![th] = "fail_clear"]
    /\ clean' = FALSE
    /\ started_seq' = <<>>
    /\ UNCHANGED <<execVars, has_ended, loc_task, loc_rem>>
    /\ UNCHANGED <<n_completion, n_checkpoint, lostVars>>
    /\ UNCHANGED <<ever_started, torn_down, reported, finished_applied, last_upd>>
    /\ UNCHANGED <<timed_out, syncVars>>
    /\ UNCHANGED runVars
    /\ UNCHANGED counterVars
    /\ UNCHANGED task_obj

\* _task_fail when handle_job_failure (or a later statement of the
\* transaction) raises: update() has been applied to the task, the exception
\* leaves the method and the lock region is not reached.
task_fail_txn_fails(th) ==
    /\ pc[th] = "fail_txn"
    /\ has_started' = TaskUpdate(has_started, loc_task[th],
                                 [task_id |-> loc_task[th], status |-> "FAILED"])
    /\ pc' = [pc EXCEPT ![th] = "idle"]
    /\ loc_task' = [loc_task EXCEPT ![th] = None]
    /\ UNCHANGED <<execVars, has_ended, loc_rem, storeVars, nodeVars, lostVars>>
    /\ UNCHANGED <<obsVars, rowVars, syncVars>>
    /\ UNCHANGED runVars
    /\ UNCHANGED counterVars
    /\ UNCHANGED task_obj

\* _task_fail, the lock region: clear the current and the remaining tasks.
task_fail_clear(th) ==
    /\ pc[th] = "fail_clear"
    /\ Teardown(loc_rem)
    /\ pc' = [pc EXCEPT ![th] = "idle"]
    /\ loc_task' = [loc_task EXCEPT ![th] = None]
    /\ reported' = TRUE
    /\ q_obs' = NoQ
    /\ UNCHANGED <<taskVars, loc_rem, storeVars, node, n_node_save, lostVars>>
    /\ UNCHANGED <<clean, started_seq, ever_started, torn_down, finished_applied,
                   last_upd>>
    /\ UNCHANGED <<rowVars, syncVars>>
    /\ UNCHANGED runVars
    /\ UNCHANGED counterVars
    /\ UNCHANGED task_obj

\* task_update(task_update): dispatch on the status.
task_update(th, u, obs) ==
    /\ Observe(u, obs)
    /\ CASE u.status = "RUNNING" -> task_start(th, u)
         [] u.status = "FINISHED" -> task_complete_begin(th, u)
         [] u.status = "LOST" -> task_lost(th, u)
         [] u.status \in {"FAILED", "KILLED"} -> task_fail_begin(th, u)

\* ---------------------------------- execution_canceled / _lost / _timed_out
\* task.populate_job_exe_model(job_exe): the task writes its own metadata
\* into the row; the status of the row is not among the fields written.
PopulateRow(status) == status

\* Mutant of CanceledSave: the cancellation is also reported as a failure.
CanceledSave_reports ==
    /\ n_checkpoint' = n_checkpoint + 1
    /\ n_failure' = n_failure + 1
    /\ fail_errors' = fail_errors \cup {"canceled"}
    /\ row_status' = PopulateRow(row_status)
    /\ clean' = FALSE
    /\ started_seq' = <<>>
    /\ UNCHANGED n_completion

\* The durable part of execution_canceled: every task is copied into the
\* locked row and the row is saved; no other store call is made.
CanceledSave ==
    /\ n_checkpoint' = n_checkpoint + 1
    /\ row_status' = PopulateRow(row_status)
    /\ clean' = FALSE
    /\ started_seq' = <<>>
    /\ UNCHANGED <<n_completion, n_failure, fail_errors>>

\* Mutant of FailureReport: the failure is reported without the error.
FailureReport_no_error(error) ==
    /\ n_failure' = n_failure + 1
    /\ clean' = FALSE
    /\ started_seq' = <<>>
    /\ fail_errors' = fail_errors \cup {None}
    /\ row_status' = StoreFailure(row_status)
    /\ UNCHANGED <<n_completion, n_checkpoint>>

\* The durable part of execution_timed_out / execution_lost:
\* handle_job_failure with the built-in error.
FailureReport(error) ==
    /\ n_failure' = n_failure + 1
    /\ clean' = FALSE
    /\ started_seq' = <<>>
    /\ fail_errors' = fail_errors \cup {error}
    /\ row_status' = StoreFailure(row_status)
    /\ UNCHANGED <<n_completion, n_checkpoint>>

\* Mutant of ReturnedTask: nothing is returned.
ReturnedTask_none(cur) == None

\* `task = self._current_task ... return task` of the three execution_*
\* methods: the value read under the lock before the fields are cleared.
ReturnedTask(cur) == cur

\* execution_canceled(), called on the execution: the durable part.
execution_canceled_save(c) ==
    /\ c = "sync"
    /\ td_pc[c] = "idle"
    /\ n_teardown < MaxTeardowns
    /\ CanceledSave
    /\ td_pc' = [td_pc EXCEPT ![c] = "clear"]
    /\ n_teardown' = n_teardown + 1
    /\ UNCHANGED td_ret
    /\ UNCHANGED <<execVars, taskVars, ingressVars, nodeVars>>
    /\ UNCHANGED <<ever_started, torn_down, reported, finished_applied, last_upd>>
    /\ UNCHANGED <<timed_out, syncVars>>
    /\ UNCHANGED runVars
    /\ UNCHANGED counterVars
    /\ UNCHANGED task_obj

\* execution_timed_out(when): the durable part.
execution_timed_out_report(c) ==
    /\ c = "sync"
    /\ td_pc[c] = "idle"
    /\ n_teardown < MaxTeardowns
    /\ FailureReport("timeout")
    /\ td_pc' = [td_pc EXCEPT ![c] = "clear"]
    /\ n_teardown' = n_teardown + 1
    /\ UNCHANGED td_ret
    /\ UNCHANGED <<execVars, taskVars, ingressVars, nodeVars>>
    /\ UNCHANGED <<ever_started, torn_down, reported, finished_applied, last_upd>>
    /\ UNCHANGED <<timed_out, syncVars>>
    /\ UNCHANGED runVars
    /\ UNCHANGED counterVars
    /\ UNCHANGED task_obj

\* execution_lost(when): the durable part.
execution_lost_report(c) ==
    /\ c = "node"
    /\ td_pc[c] = "idle"
    /\ n_teardown < MaxTeardowns
    /\ FailureReport("node-lost")
    /\ td_pc' = [td_pc EXCEPT ![c] = "clear"]
    /\ n_teardown' = n_teardown + 1
    /\ UNCHANGED td_ret
    /\ UNCHANGED <<execVars, taskVars, ingressVars, nodeVars>>
    /\ UNCHANGED <<ever_started, torn_down, reported, finished_applied, last_upd>>
    /\ UNCHANGED <<timed_out, syncVars>>
    /\ UNCHANGED runVars
    /\ UNCHANGED counterVars
    /\ UNCHANGED task_obj

\* The durable part of an execution_* call raises (a DatabaseError out of
\* the transaction or of handle_job_failure): the method is left before its
\* lock region.
execution_report_fails(c) ==
    /\ td_pc[c] = "idle"
    /\ n_teardown < MaxTeardowns
    /\ n_teardown' = n_teardown + 1
    /\ UNCHANGED <<td_pc, td_ret>>
    /\ UNCHANGED <<execVars, taskVars, ingressVars, storeVars, nodeVars, obsVars>>
    /\ UNCHANGED <<rowVars, syncVars>>
    /\ UNCHANGED runVars
    /\ UNCHANGED counterVars
    /\ UNCHANGED task_obj

\* The lock region that ends the three methods: the execution is cleared
\* and the method returns.
execution_clear(c, obs) ==
    /\ td_pc[c] = "clear"
    /\ td_ret' = IF obs THEN [td_ret EXCEPT ![c] = ReturnedTask(current_task)]
                 ELSE td_ret
    /\ Teardown(loc_rem)
    /\ td_pc' = [td_pc EXCEPT ![c] = "idle"]
    /\ torn_down' = TRUE
    /\ reported' = TRUE
    /\ UNCHANGED <<taskVars, ingressVars, storeVars, nodeVars, n_teardown>>
    /\ UNCHANGED <<clean, started_seq, ever_started, finished_applied, last_upd>>
    /\ UNCHANGED <<rowVars, syncVars>>
    /\ UNCHANGED runVars
    /\ UNCHANGED counterVars
    /\ UNCHANGED task_obj

\* ------------------------------------------------------ DatabaseSyncThread
\* One tick of run(): _perform_sync() up to the query of
\* _sync_running_job_executions. The registry is copied, and the rows of the
\* copied ids are read. A tick over an empty registry ends at once.
RowCondition == row_status = "CANCELED" \/ timed_out

\* Mutant of LoopCondition: the flag is not looked at.
LoopCondition_ignore(flag) == TRUE

\* `while self._running:` of run().
LoopCondition(flag) == flag

\* Mutant of Delay: the delay is rounded down.
Delay_floor(e) ==
    IF e < THROTTLE * TicksPerSecond
    THEN (THROTTLE * TicksPerSecond - e) \div TicksPerSecond
    ELSE 0

\* The throttle at the end of an iteration of run(): secs_passed is
\* e / TicksPerSecond; `if secs_passed < THROTTLE:` the delay is
\* math.ceil(THROTTLE - secs_passed) seconds, otherwise there is no sleep.
Delay(e) ==
    IF e < THROTTLE * TicksPerSecond
    THEN (THROTTLE * TicksPerSecond - e + TicksPerSecond - 1) \div TicksPerSecond
    ELSE 0

sync_tick_start ==
    /\ sync_pc = "sleep"
    /\ LoopCondition(running)
    /\ tick_error' = "none"
    /\ elapsed' = 0
    /\ slept' = IF registry = {} THEN Delay(0) ELSE 0
    /\ UNCHANGED <<running, n_raise>>
    /\ snapshot' = registry
    /\ sync_row' = IF registry = {} THEN NoRow
                   ELSE [status |-> row_status, timed_out |-> timed_out]
    /\ sync_pc' = IF registry = {} THEN "sleep" ELSE "handle"
    /\ age' = IF registry # {} /\ RowCondition /\ age < 2 THEN age + 1 ELSE age
    /\ UNCHANGED <<execVars, taskVars, ingressVars, storeVars, nodeVars, obsVars>>
    /\ UNCHANGED <<lostVars, rowVars, registry, cleanup_queue, task_to_kill>>
    /\ UNCHANGED <<fin_ret, kills>>
    /\ UNCHANGED counterVars
    /\ UNCHANGED task_obj

\* Mutant of RowAction: every row is handled as a cancellation.
RowAction_always_canceled(row) == "canceled"

\* Mutant of RowAction: the timeout is tested before the CANCELED status.
RowAction_timeout_first(row) ==
    IF row.timed_out THEN "timed_out"
    ELSE IF row.status = "CANCELED" THEN "canceled"
    ELSE "none"

\* Mutant of RowAction: the elif branch on is_timed_out is missing.
RowAction_no_timeout(row) == IF row.status = "CANCELED" THEN "canceled" ELSE "none"

\* The branch of the loop body on the row that was read.
RowAction(row) ==
    IF row.status = "CANCELED" THEN "canceled"
    ELSE IF row.timed_out THEN "timed_out"
    ELSE "none"

\* The loop body up to the durable part of execution_canceled (the
\* checkpoint of the tasks into the locked row and job_exe.save()) or of
\* execution_timed_out (handle_job_failure with the timeout error).
sync_handle ==
    /\ sync_pc = "handle"
    /\ CASE RowAction(sync_row) = "canceled" ->
              CanceledSave /\ sync_pc' = "clear"
         [] RowAction(sync_row) = "timed_out" ->
              FailureReport("timeout") /\ sync_pc' = "clear"
         [] OTHER ->
              /\ sync_pc' = "kill"
              /\ UNCHANGED <<storeVars, row_status, clean, started_seq>>
    /\ task_to_kill' = None
    /\ UNCHANGED <<execVars, taskVars, ingressVars, nodeVars>>
    /\ UNCHANGED <<ever_started, torn_down, reported, finished_applied, last_upd>>
    /\ UNCHANGED <<lostVars, timed_out>>
    /\ UNCHANGED <<registry, cleanup_queue, snapshot, sync_row, fin_ret, kills, age>>
    /\ UNCHANGED runVars
    /\ UNCHANGED counterVars
    /\ UNCHANGED task_obj

\* The lock region of execution_canceled / execution_timed_out: returns the
\* task that was current and clears the execution.
sync_clear ==
    /\ sync_pc = "clear"
    /\ task_to_kill' = ReturnedTask(current_task)
    /\ Teardown(loc_rem)
    /\ torn_down' = TRUE
    /\ reported' = TRUE
    /\ sync_pc' = "kill"
    /\ UNCHANGED <<taskVars, ingressVars, storeVars, nodeVars, lostVars, rowVars>>
    /\ UNCHANGED <<clean, started_seq, ever_started, finished_applied, last_upd>>
    /\ UNCHANGED <<registry, cleanup_queue, snapshot, sync_row, fin_ret, kills, age>>
    /\ UNCHANGED runVars
    /\ UNCHANGED counterVars
    /\ UNCHANGED task_obj

\* Mutant of sync_kill: the kill is dispatched whatever the handler returned.
sync_kill_unconditional ==
    /\ sync_pc = "kill"
    /\ kills' = Append(kills, task_to_kill)
    /\ sync_pc' = "check"
    /\ UNCHANGED <<execVars, taskVars, ingressVars, storeVars, nodeVars, obsVars>>
    /\ UNCHANGED <<lostVars, rowVars, fin_ret>>
    /\ UNCHANGED <<registry, cleanup_queue, snapshot, sync_row, task_to_kill, age>>
    /\ UNCHANGED runVars
    /\ UNCHANGED counterVars
    /\ UNCHANGED task_obj

\* `if task_to_kill:` driver.killTask, with no lock held.
sync_kill ==
    /\ sync_pc = "kill"
    /\ kills' = IF TaskTruthy(task_to_kill) THEN Append(kills, task_to_kill)
                ELSE kills
    /\ sync_pc' = "check"
    /\ UNCHANGED <<execVars, taskVars, ingressVars, storeVars, nodeVars, obsVars>>
    /\ UNCHANGED <<lostVars, rowVars, fin_ret>>
    /\ UNCHANGED <<registry, cleanup_queue, snapshot, sync_row, task_to_kill, age>>
    /\ UNCHANGED runVars
    /\ UNCHANGED counterVars
    /\ UNCHANGED task_obj

\* Mutant of sync_check: the kill is made inside the lock region of
\* is_finished().
sync_check_with_kill ==
    /\ sync_pc = "check"
    /\ kills' = IF TaskTruthy(task_to_kill) THEN Append(kills, task_to_kill)
                ELSE kills
    /\ fin_ret' = is_finished
    /\ sync_pc' = "remove"
    /\ UNCHANGED <<execVars, taskVars, ingressVars, storeVars, nodeVars, obsVars>>
    /\ UNCHANGED <<lostVars, rowVars>>
    /\ UNCHANGED <<registry, cleanup_queue, snapshot, sync_row, task_to_kill, age>>
    /\ UNCHANGED runVars
    /\ UNCHANGED counterVars
    /\ UNCHANGED task_obj

\* The call of is_finished(), one lock region.
sync_check ==
    /\ sync_pc = "check"
    /\ fin_ret' = is_finished
    /\ sync_pc' = "remove"
    /\ UNCHANGED <<execVars, taskVars, ingressVars, storeVars, nodeVars, obsVars>>
    /\ UNCHANGED <<lostVars, rowVars, kills>>
    /\ UNCHANGED <<registry, cleanup_queue, snapshot, sync_row, task_to_kill, age>>
    /\ UNCHANGED runVars
    /\ UNCHANGED counterVars
    /\ UNCHANGED task_obj

\* A DatabaseError out of execution_canceled / execution_timed_out: the
\* transaction is rolled back, the method is left before its lock region,
\* and the loop body catches the error and goes on with task_to_kill = None.
sync_handle_fails ==
    /\ sync_pc = "handle"
    /\ RowAction(sync_row) # "none"
    /\ task_to_kill' = None
    /\ tick_error' = "database"
    /\ sync_pc' = "kill"
    /\ UNCHANGED <<execVars, taskVars, ingressVars, storeVars, nodeVars, obsVars>>
    /\ UNCHANGED <<lostVars, rowVars>>
    /\ UNCHANGED <<registry, cleanup_queue, snapshot, sync_row, fin_ret, kills, age>>
    /\ UNCHANGED <<running, elapsed, slept, n_raise>>
    /\ UNCHANGED counterVars
    /\ UNCHANGED task_obj

\* Mutant of sync_tick_raises: the exception ends run().
sync_tick_raises_fatal ==
    /\ sync_pc \in {"handle", "kill"}
    /\ n_raise < MaxRaises
    /\ n_raise' = n_raise + 1
    /\ tick_error' = "exception"
    /\ sync_pc' = "stopped"
    /\ snapshot' = {}
    /\ sync_row' = NoRow
    /\ task_to_kill' = None
    /\ fin_ret' = FALSE
    /\ slept' = Delay(elapsed)
    /\ UNCHANGED <<execVars, taskVars, ingressVars, storeVars, nodeVars, obsVars>>
    /\ UNCHANGED <<lostVars, rowVars>>
    /\ UNCHANGED <<registry, cleanup_queue, kills, age>>
    /\ elapsed' = 0
    /\ UNCHANGED running
    /\ UNCHANGED counterVars
    /\ UNCHANGED task_obj

\* An exception that leaves _perform_sync(): out of the query or of a
\* handler (anything but the DatabaseError the loop body catches), or out of
\* killTask. run() catches it, logs, throttles and loops.
sync_tick_raises ==
    /\ sync_pc \in {"handle", "kill"}
    /\ n_raise < MaxRaises
    /\ n_raise' = n_raise + 1
    /\ tick_error' = "exception"
    /\ sync_pc' = "sleep"
    /\ snapshot' = {}
    /\ sync_row' = NoRow
    /\ task_to_kill' = None
    /\ fin_ret' = FALSE
    /\ slept' = Delay(elapsed)
    /\ UNCHANGED <<execVars, taskVars, ingressVars, storeVars, nodeVars, obsVars>>
    /\ UNCHANGED <<lostVars, rowVars>>
    /\ UNCHANGED <<registry, cleanup_queue, kills, age>>
    /\ elapsed' = 0
    /\ UNCHANGED running
    /\ UNCHANGED counterVars
    /\ UNCHANGED task_obj

\* An exception out of one of the manager syncs at the head of
\* _perform_sync(): the tick ends before the executions are looked at.
sync_manager_raises ==
    /\ sync_pc = "sleep"
    /\ LoopCondition(running)
    /\ n_raise < MaxRaises
    /\ n_raise' = n_raise + 1
    /\ tick_error' = "exception"
    /\ slept' = Delay(0)
    /\ UNCHANGED <<execVars, taskVars, ingressVars, storeVars, nodeVars, obsVars>>
    /\ UNCHANGED <<lostVars, rowVars, syncVars>>
    /\ UNCHANGED <<running, elapsed>>
    /\ UNCHANGED counterVars
    /\ UNCHANGED task_obj

\* run() finds the flag cleared and returns.
run_stop ==
    /\ sync_pc = "sleep"
    /\ ~LoopCondition(running)
    /\ sync_pc' = "stopped"
    /\ UNCHANGED <<execVars, taskVars, ingressVars, storeVars, nodeVars, obsVars>>
    /\ UNCHANGED <<lostVars, rowVars>>
    /\ UNCHANGED <<registry, cleanup_queue, snapshot, sync_row, task_to_kill>>
    /\ UNCHANGED <<fin_ret, kills, age, runVars>>
    /\ UNCHANGED counterVars
    /\ UNCHANGED task_obj

\* shutdown(), called by another thread.
shutdown ==
    /\ running
    /\ running' = FALSE
    /\ UNCHANGED <<execVars, taskVars, ingressVars, storeVars, nodeVars, obsVars>>
    /\ UNCHANGED <<lostVars, rowVars, syncVars>>
    /\ UNCHANGED <<tick_error, elapsed, slept, n_raise>>
    /\ UNCHANGED counterVars
    /\ UNCHANGED task_obj

\* Time passes while a tick is in progress: the query and the handler's
\* transaction are where a tick waits.
time_passes ==
    /\ sync_pc = "handle"
    /\ elapsed < MaxElapsed
    /\ elapsed' = elapsed + 1
    /\ UNCHANGED <<execVars, taskVars, ingressVars, storeVars, nodeVars, obsVars>>
    /\ UNCHANGED <<lostVars, rowVars, syncVars>>
    /\ UNCHANGED <<running, tick_error, slept, n_raise>>
    /\ UNCHANGED counterVars
    /\ UNCHANGED task_obj

\* Mutant of sync_remove: the execution is removed whatever is_finished()
\* returned.
sync_remove_always ==
    /\ sync_pc = "remove"
    /\ registry' = registry \ {ExeId}
    /\ cleanup_queue' = Append(cleanup_queue, ExeId)
    /\ sync_pc' = "sleep"
    /\ snapshot' = {}
    /\ sync_row' = NoRow
    /\ task_to_kill' = None
    /\ fin_ret' = FALSE
    /\ slept' = Delay(elapsed)
    /\ elapsed' = 0
    /\ UNCHANGED <<running, tick_error, n_raise>>
    /\ UNCHANGED <<execVars, taskVars, ingressVars, storeVars, nodeVars, obsVars>>
    /\ UNCHANGED <<lostVars, rowVars, kills, age>>
    /\ UNCHANGED counterVars
    /\ UNCHANGED task_obj

\* `if running_job_exe.is_finished():` remove_job_exe and add_job_execution;
\* the loop over the rows ends and the thread sleeps until the next tick.
sync_remove ==
    /\ sync_pc = "remove"
    /\ IF fin_ret
       THEN /\ registry' = registry \ {ExeId}
            /\ cleanup_queue' = Append(cleanup_queue, ExeId)
       ELSE UNCHANGED <<registry, cleanup_queue>>
    /\ sync_pc' = "sleep"
    /\ snapshot' = {}
    /\ sync_row' = NoRow
    /\ task_to_kill' = None
    /\ fin_ret' = FALSE
    /\ slept' = Delay(elapsed)
    /\ elapsed' = 0
    /\ UNCHANGED <<running, tick_error, n_raise>>
    /\ UNCHANGED <<execVars, taskVars, ingressVars, storeVars, nodeVars, obsVars>>
    /\ UNCHANGED <<lostVars, rowVars, kills, age>>
    /\ UNCHANGED counterVars
    /\ UNCHANGED task_obj

SyncNext ==
    sync_tick_start \/ sync_handle \/ sync_clear \/ sync_kill \/ sync_check \/ sync_remove

\* ------------------------------------------------------------- environment
\* The control plane cancels the running job execution.
cancel_requested ==
    /\ row_status = "RUNNING"
    /\ row_status' = "CANCELED"
    /\ UNCHANGED <<execVars, taskVars, ingressVars, storeVars, nodeVars, obsVars>>
    /\ UNCHANGED <<lostVars, timed_out, syncVars>>
    /\ UNCHANGED runVars
    /\ UNCHANGED counterVars
    /\ UNCHANGED task_obj

\* Time passes the timeout of the job execution.
timeout_elapsed ==
    /\ ~timed_out
    /\ timed_out' = TRUE
    /\ UNCHANGED <<execVars, taskVars, ingressVars, storeVars, nodeVars, obsVars>>
    /\ UNCHANGED <<lostVars, row_status, syncVars>>
    /\ UNCHANGED runVars
    /\ UNCHANGED counterVars
    /\ UNCHANGED task_obj

\* ------------------------------------------------ JobExecutionTask.complete
\* The fields of a task that complete() writes, as a new task has them.
NewTask ==
    [has_ended |-> FALSE, ended |-> None, exit_code |-> None,
     last_status_update |-> None]

\* The FINISHED updates that can be delivered: task id, timestamp, exit code.
FinishedUpdates == [task_id : TaskIds, timestamp : 1 .. MaxTimestamp, exit_code : {0, 1}]

\* Mutant of complete: the task id of the update is not compared.
complete_no_id_check(task, t, u) ==
    [has_ended |-> TRUE, ended |-> u.timestamp, exit_code |-> u.exit_code,
     last_status_update |-> u.timestamp]

\* complete(task_update) on the task with id t, under the task's lock.
complete(task, t, u) ==
    IF t # u.task_id THEN task
    ELSE [has_ended |-> TRUE, ended |-> u.timestamp, exit_code |-> u.exit_code,
          last_status_update |-> u.timestamp]

\* A caller applies complete(u) to the task with id t.
task_complete_call(t, u) ==
    /\ task_obj' = [task_obj EXCEPT ![t] = complete(task_obj[t], t, u)]
    /\ UNCHANGED <<execVars, taskVars, ingressVars, storeVars, nodeVars, obsVars>>
    /\ UNCHANGED <<lostVars, rowVars, syncVars, runVars, counterVars>>

\* ------------------------------------------------- AtomicCounter, CleanupTask
\* '%d' of a positive integer: its decimal digits, as characters.
DigitChars == <<"0", "1", "2", "3", "4", "5", "6", "7", "8", "9">>

RECURSIVE FormatInt(_)
FormatInt(n) ==
    IF n < 10 THEN <<DigitChars[n + 1]>>
    ELSE FormatInt(n \div 10) \o <<DigitChars[(n % 10) + 1]>>

\* '%s_%s_%d' % (CLEANUP_TASK_ID_PREFIX, framework_id, n)
FormatTaskId(framework_id, n) ==
    CLEANUP_TASK_ID_PREFIX \o <<"_">> \o framework_id \o <<"_">> \o FormatInt(n)

\* The job executions a cleanup task is constructed for: the container name
\* of each task of the execution (None: the task has none) and the names of
\* its docker volumes.
CleanupExeA ==
    [container_names |-> <<"scale_1_pre", "scale_1_job", None>>,
     docker_volumes |-> <<"vol_1">>]
CleanupExeB ==
    [container_names |-> <<"scale_2_job">>, docker_volumes |-> <<"vol_2a", "vol_2b">>]
\* An execution without container names and without docker volumes.
CleanupExeC == [container_names |-> <<None>>, docker_volumes |-> <<>>]
JobExeLists ==
    {<<>>, <<CleanupExeA>>, <<CleanupExeB>>, <<CleanupExeC>>,
     <<CleanupExeA, CleanupExeB>>, <<CleanupExeB, CleanupExeA>>}

\* get_container_names(): the container names of the tasks that have one, in
\* the order of self._all_tasks.
RECURSIVE get_container_names(_)
get_container_names(names) ==
    IF names = <<>> THEN <<>>
    ELSE (IF TaskTruthy(Head(names)) THEN <<Head(names)>> ELSE <<>>)
             \o get_container_names(Tail(names))

\* Mutant of ExtendContainers: only the last execution's names are kept.
RECURSIVE ExtendContainers_last_only(_)
ExtendContainers_last_only(job_exes) ==
    IF job_exes = <<>> THEN <<>>
    ELSE IF Len(job_exes) = 1
         THEN get_container_names(job_exes[1].container_names)
         ELSE ExtendContainers_last_only(Tail(job_exes))

\* The loop over self._job_exes: containers.extend(get_container_names())
RECURSIVE ExtendContainers(_)
ExtendContainers(job_exes) ==
    IF job_exes = <<>> THEN <<>>
    ELSE get_container_names(job_exes[1].container_names)
             \o ExtendContainers(Tail(job_exes))

\* The loop over self._job_exes: volumes.extend(job_exe.docker_volumes)
RECURSIVE ExtendVolumes(_)
ExtendVolumes(job_exes) ==
    IF job_exes = <<>> THEN <<>>
    ELSE job_exes[1].docker_volumes \o ExtendVolumes(Tail(job_exes))

\* ' -e '.join(names), as the pieces of the string.
RECURSIVE JoinE(_)
JoinE(names) ==
    IF names = <<>> THEN <<>>
    ELSE IF Len(names) = 1 THEN names
    ELSE <<Head(names), " -e ">> \o JoinE(Tail(names))

\* `not self._job_exes`
IsInitialCleanup(job_exes) == job_exes = <<>>

AllNonrunningContainersCmd ==
    <<"docker ps -f status=created -f status=dead -f status=exited --format '{{.Names}}'">>
AllDanglingVolumesCmd == <<"docker volume ls -f dangling=true -q">>

\* The back quote of the shell command (a TLA+ string cannot hold one).
BackQuote == "<backquote>"

\* The command built by the constructor, as the pieces of the string.
ContainerListCmd(job_exes) ==
    IF IsInitialCleanup(job_exes) THEN AllNonrunningContainersCmd
    ELSE AllNonrunningContainersCmd \o <<" | grep -e ">>
             \o JoinE(ExtendContainers(job_exes))

VolumeListCmd(job_exes) ==
    IF IsInitialCleanup(job_exes) THEN AllDanglingVolumesCmd
    ELSE AllDanglingVolumesCmd \o <<" | grep -e ">> \o JoinE(ExtendVolumes(job_exes))

CleanupCommand(job_exes) ==
    <<"for cont in ", BackQuote>> \o ContainerListCmd(job_exes)
        \o <<BackQuote, "; do docker rm $cont; done">> \o <<"; ">>
        \o <<"for vol in ", BackQuote>> \o VolumeListCmd(job_exes)
        \o <<BackQuote, "; do docker volume rm $vol; done">>

\* Mutant of LockFree: the lock is not taken.
LockFree_always(holder) == TRUE

\* threading.Lock: `with self._lock:` enters when no thread holds the lock.
LockFree(holder) == holder = None

\* Constructions begun and not yet finished.
InFlight == Cardinality({th \in CleanupThreads : ct_pc[th] # "idle"})

\* CleanupTask.__init__ calls COUNTER.get_next(): the lock is acquired.
get_next_acquire(th, framework_id) ==
    /\ ct_pc[th] = "idle"
    /\ Len(cleanup_tasks) + InFlight < MaxCleanupTasks
    /\ LockFree(counter_lock)
    /\ counter_lock' = th
    /\ ct_fw' = [ct_fw EXCEPT ![th] = framework_id]
    /\ ct_pc' = [ct_pc EXCEPT ![th] = "load"]
    /\ UNCHANGED <<counter, ct_tmp, cleanup_tasks>>
    /\ UNCHANGED <<execVars, taskVars, ingressVars, storeVars, nodeVars, obsVars>>
    /\ UNCHANGED <<lostVars, rowVars, syncVars, runVars, task_obj>>

\* `self._counter += 1`, the load of the attribute.
get_next_load(th) ==
    /\ ct_pc[th] = "load"
    /\ ct_tmp' = [ct_tmp EXCEPT ![th] = counter]
    /\ ct_pc' = [ct_pc EXCEPT ![th] = "store"]
    /\ UNCHANGED <<counter, counter_lock, ct_fw, cleanup_tasks>>
    /\ UNCHANGED <<execVars, taskVars, ingressVars, storeVars, nodeVars, obsVars>>
    /\ UNCHANGED <<lostVars, rowVars, syncVars, runVars, task_obj>>

\* `self._counter += 1`, the store of the sum.
get_next_store(th) ==
    /\ ct_pc[th] = "store"
    /\ counter' = ct_tmp[th] + 1
    /\ ct_pc' = [ct_pc EXCEPT ![th] = "return"]
    /\ UNCHANGED <<counter_lock, ct_tmp, ct_fw, cleanup_tasks>>
    /\ UNCHANGED <<execVars, taskVars, ingressVars, storeVars, nodeVars, obsVars>>
    /\ UNCHANGED <<lostVars, rowVars, syncVars, runVars, task_obj>>

\* `return self._counter`, the release of the lock, and the rest of
\* CleanupTask.__init__: the task id built from the returned value, and the
\* initial-cleanup flag and the command built from the job_exes argument.
get_next_return(th, job_exes) ==
    /\ ct_pc[th] = "return"
    /\ cleanup_tasks' = Append(cleanup_tasks,
                               [n |-> counter,
                                task_id |-> FormatTaskId(ct_fw[th], counter),
                                job_exes |-> job_exes,
                                is_initial_cleanup |-> IsInitialCleanup(job_exes),
                                command |-> CleanupCommand(job_exes)])
    /\ counter_lock' = IF counter_lock = th THEN None ELSE counter_lock
    /\ ct_pc' = [ct_pc EXCEPT ![th] = "idle"]
    /\ ct_tmp' = [ct_tmp EXCEPT ![th] = 0]
    /\ ct_fw' = [ct_fw EXCEPT ![th] = <<>>]
    /\ UNCHANGED counter
    /\ UNCHANGED <<execVars, taskVars, ingressVars, storeVars, nodeVars, obsVars>>
    /\ UNCHANGED <<lostVars, rowVars, syncVars, runVars, task_obj>>

\* ------------------------------------------------------------------- specs
Init ==
    /\ is_system \in BOOLEAN
    /\ all_tasks = CreateTasks(is_system)
    /\ current_task = None
    /\ remaining_ref = 0
    /\ heap = [i \in ListIds |-> IF i = 0 THEN CreateTasks(is_system) ELSE <<>>]
    /\ has_started = [t \in TaskIds |-> FALSE]
    /\ has_ended = [t \in TaskIds |-> FALSE]
    /\ pc = [th \in IngressThreads |-> "idle"]
    /\ loc_task = [th \in IngressThreads |-> None]
    /\ loc_rem = [th \in IngressThreads |-> NoRef]
    /\ n_completion = 0
    /\ n_failure = 0
    /\ n_checkpoint = 0
    /\ fail_errors = {}
    /\ node = [is_paused |-> FALSE, is_paused_errors |-> FALSE, pause_reason |-> ""]
    /\ n_node_save = 0
    /\ q_obs = NoQ
    /\ last_upd = NoUpd
    /\ clean = TRUE
    /\ started_seq = <<>>
    /\ ever_started = {}
    /\ td_pc = [c \in TeardownThreads |-> "idle"]
    /\ n_teardown = 0
    /\ td_ret = [c \in TeardownThreads |-> None]
    /\ torn_down = FALSE
    /\ reported = FALSE
    /\ finished_applied = {}
    /\ registry = {ExeId}
    /\ cleanup_queue = <<>>
    /\ row_status = "RUNNING"
    /\ timed_out = FALSE
    /\ sync_pc = "sleep"
    /\ snapshot = {}
    /\ sync_row = NoRow
    /\ task_to_kill = None
    /\ fin_ret = FALSE
    /\ kills = <<>>
    /\ age = 0
    /\ running = TRUE
    /\ tick_error = "none"
    /\ elapsed = 0
    /\ slept = 0
    /\ n_raise = 0
    /\ counter = 0
    /\ counter_lock = None
    /\ ct_pc = [th \in CleanupThreads |-> "idle"]
    /\ ct_tmp = [th \in CleanupThreads |-> 0]
    /\ ct_fw = [th \in CleanupThreads |-> <<>>]
    /\ cleanup_tasks = <<>>
    /\ task_obj = [t \in TaskIds |-> NewTask]

\* The execution under every thread that can reach it: two status-update
\* threads, the thread that starts tasks, and the threads that tear it down.
Next ==
    \/ start_next_task
    \/ \E th \in IngressThreads, u \in Updates : task_update(th, u, FALSE)
    \/ \E th \in IngressThreads : task_complete_txn(th)
    \/ \E th \in IngressThreads : task_complete_publish(th)
    \/ \E th \in IngressThreads : task_fail_txn(th, SampleReadings, FALSE)
    \/ \E th \in IngressThreads : task_fail_clear(th)
    \/ \E c \in TeardownThreads : execution_canceled_save(c)
    \/ \E c \in TeardownThreads : execution_timed_out_report(c)
    \/ \E c \in TeardownThreads : execution_lost_report(c)
    \/ \E c \in TeardownThreads : execution_clear(c, FALSE)

Spec == Init /\ [][Next]_vars

\* The sync thread with one status-update thread, the thread that starts
\* tasks, the control plane and the clock.
SyncThreads == {"u1"}

NextSync ==
    \/ start_next_task
    \/ \E th \in SyncThreads, u \in Updates : task_update(th, u, FALSE)
    \/ \E th \in SyncThreads : task_complete_txn(th)
    \/ \E th \in SyncThreads : task_complete_publish(th)
    \/ \E th \in SyncThreads : task_fail_txn(th, SampleReadings, FALSE)
    \/ \E th \in SyncThreads : task_fail_clear(th)
    \/ sync_tick_start
    \/ sync_handle
    \/ sync_clear
    \/ sync_kill
    \/ sync_check
    \/ sync_remove
    \/ cancel_requested
    \/ timeout_elapsed

SpecSync == Init /\ [][NextSync]_vars

\* The execution with the status updates dispatched in order by one
\* status-update thread (the observer of the dispatched update is on),
\* beside the thread that starts tasks and the threads that tear it down.
OrderedThreads == {"u1"}

NextOrdered ==
    \/ start_next_task
    \/ \E th \in OrderedThreads, u \in Updates : task_update(th, u, TRUE)
    \/ \E th \in OrderedThreads : task_complete_txn(th)
    \/ \E th \in OrderedThreads : task_complete_publish(th)
    \/ \E th \in OrderedThreads : task_fail_txn(th, SampleReadings, FALSE)
    \/ \E th \in OrderedThreads : task_fail_clear(th)
    \/ \E c \in TeardownThreads : execution_canceled_save(c)
    \/ \E c \in TeardownThreads : execution_timed_out_report(c)
    \/ \E c \in TeardownThreads : execution_lost_report(c)
    \/ \E c \in TeardownThreads : execution_report_fails(c)
    \/ \E c \in TeardownThreads : execution_clear(c, TRUE)

SpecOrdered == Init /\ [][NextOrdered]_vars

\* The sync thread keeps ticking: run() loops until shutdown, and no step of
\* a tick blocks for ever.
LiveSpec == Init /\ [][NextSync]_vars /\ WF_vars(SyncNext)

\* One status-update thread with every outcome of the reads of the failure
\* transaction (the observer of the values read is on).
QuarantineThreads == {"u1"}

NextQuarantine ==
    \/ start_next_task
    \/ \E th \in QuarantineThreads, u \in Updates : task_update(th, u, FALSE)
    \/ \E th \in QuarantineThreads : task_complete_txn(th)
    \/ \E th \in QuarantineThreads : task_complete_publish(th)
    \/ \E th \in QuarantineThreads : task_fail_txn(th, DbReadings, TRUE)
    \/ \E th \in QuarantineThreads : task_fail_clear(th)

SpecQuarantine == Init /\ [][NextQuarantine]_vars

\* Every thread that reaches the execution: one status-update thread, the
\* thread that starts tasks, the sync thread, the thread that reports a lost
\* node, the control plane and the clock.
LockThreads == {"u1"}
LostThreads == {"node"}

NextLock ==
    \/ start_next_task
    \/ \E th \in LockThreads, u \in Updates : task_update(th, u, FALSE)
    \/ \E th \in LockThreads : task_complete_txn(th)
    \/ \E th \in LockThreads : task_complete_publish(th)
    \/ \E th \in LockThreads : task_fail_txn(th, SampleReadings, FALSE)
    \/ \E th \in LockThreads : task_fail_clear(th)
    \/ \E c \in LostThreads : execution_lost_report(c)
    \/ \E c \in LostThreads : execution_clear(c, FALSE)
    \/ sync_tick_start
    \/ sync_handle
    \/ sync_clear
    \/ sync_kill
    \/ sync_check
    \/ sync_remove
    \/ cancel_requested
    \/ timeout_elapsed

SpecLock == Init /\ [][NextLock]_vars

\* The sync thread whose handlers can fail with a DatabaseError, with one
\* status-update thread, the thread that starts tasks, the control plane and
\* the clock.
NextSyncErr ==
    \/ start_next_task
    \/ \E th \in SyncThreads, u \in Updates : task_update(th, u, FALSE)
    \/ \E th \in SyncThreads : task_complete_txn(th)
    \/ \E th \in SyncThreads : task_complete_publish(th)
    \/ \E th \in SyncThreads : task_fail_txn(th, SampleReadings, FALSE)
    \/ \E th \in SyncThreads : task_fail_clear(th)
    \/ sync_tick_start
    \/ sync_handle
    \/ sync_handle_fails
    \/ sync_clear
    \/ sync_kill
    \/ sync_check
    \/ sync_remove
    \/ cancel_requested
    \/ timeout_elapsed

SpecSyncErr == Init /\ [][NextSyncErr]_vars

\* run() of the sync thread: ticks that take time and can raise, the
\* throttle, and shutdown(); beside it the thread that starts tasks, the
\* control plane and the clock.
RunNext ==
    \/ sync_tick_start
    \/ sync_handle
    \/ sync_clear
    \/ sync_kill
    \/ sync_check
    \/ sync_remove
    \/ run_stop

NextRun ==
    \/ start_next_task
    \/ RunNext
    \/ sync_handle_fails
    \/ sync_tick_raises
    \/ sync_manager_raises
    \/ shutdown
    \/ time_passes
    \/ cancel_requested
    \/ timeout_elapsed

SpecRun == Init /\ [][NextRun]_vars

\* run() keeps taking steps: no step of the loop blocks for ever.
LiveRun == Init /\ [][NextRun]_vars /\ WF_vars(RunNext)

\* One status-update thread whose durable writes can fail, beside the
\* thread that starts tasks.
TxnErrThreads == {"u1"}

NextTxnErr ==
    \/ start_next_task
    \/ \E th \in TxnErrThreads, u \in Updates : task_update(th, u, FALSE)
    \/ \E th \in TxnErrThreads : task_complete_txn(th)
    \/ \E th \in TxnErrThreads : task_complete_txn_fails(th)
    \/ \E th \in TxnErrThreads : task_complete_publish(th)
    \/ \E th \in TxnErrThreads : task_fail_txn(th, SampleReadings, FALSE)
    \/ \E th \in TxnErrThreads : task_fail_txn_fails(th)
    \/ \E th \in TxnErrThreads : task_fail_clear(th)

SpecTxnErr == Init /\ [][NextTxnErr]_vars

\* Threads that construct cleanup tasks concurrently.
NextCounter ==
    \/ \E th \in CleanupThreads, fw \in FrameworkIds : get_next_acquire(th, fw)
    \/ \E th \in CleanupThreads : get_next_load(th)
    \/ \E th \in CleanupThreads : get_next_store(th)
    \/ \E th \in CleanupThreads, job_exes \in JobExeLists : get_next_return(th, job_exes)

SpecCounter == Init /\ [][NextCounter]_vars

\* complete() applied to the tasks of an execution, in any order and with
\* any update.
NextTask == \E t \in TaskIds, u \in FinishedUpdates : task_complete_call(t, u)

SpecTask == Init /\ [][NextTask]_vars

\* ------------------------------------------------------------- properties
Range(s) == {s[i] : i \in 1 .. Len(s)}
IsSuffix(s, t) == \E k \in 0 .. Len(t) : s = SubSeq(t, k + 1, Len(t))
IsPrefix(s, t) == Len(s) <= Len(t) /\ s = SubSeq(t, 1, Len(s))
NoDuplicates(s) == \A i, j \in 1 .. Len(s) : s[i] = s[j] => i = j

\* C1: in every reachable state, under every interleaving, the current task
\* (a single reference, so at most one task is current) is either none or
\* one of all_tasks, and it is not among the remaining tasks.
C1_CurrentTask ==
    current_task # None =>
        /\ current_task \in Range(all_tasks)
        /\ current_task \notin Range(remaining_tasks)

\* C1 witness: after a LOST update re-queued a task, a task is current
\* again while another one still waits.
C1_Witness == ~clean /\ current_task = "job" /\ remaining_tasks = <<"post">>

\* C2: in every reachable state the remaining tasks are a contiguous suffix
\* of all_tasks, in the same order and without duplicates, also after a
\* LOST update put the current task back; all_tasks is what the constructor
\* built.
C2_RemainingSuffix ==
    /\ IsSuffix(remaining_tasks, all_tasks)
    /\ NoDuplicates(remaining_tasks)
    /\ all_tasks = (IF is_system THEN <<"job">> ELSE <<"pre", "job", "post">>)

\* C2 witness: the job-task was started, lost, and is the head of the
\* remaining tasks again.
C2_Witness ==
    /\ ~clean /\ torn_down = FALSE /\ n_failure = 0
    /\ "job" \in ever_started
    /\ current_task = None
    /\ remaining_tasks = <<"job", "post">>

\* C4: as long as no LOST, FAILED or KILLED update was applied and no
\* execution_* method was called, the tasks returned by start_next_task
\* are a prefix of Pre, Job, Post (of Job for a system job), and once the
\* execution is finished they are exactly that sequence.
C4_StartOrder ==
    clean =>
        LET expected == IF is_system THEN <<"job">> ELSE <<"pre", "job", "post">>
        IN /\ IsPrefix(started_seq, expected)
           /\ (current_task = None /\ remaining_tasks = <<>>) =>
                  started_seq = expected

\* C4 witness: a non-system execution ran all three tasks to the end.
C4_Witness ==
    /\ clean /\ ~is_system
    /\ started_seq = <<"pre", "job", "post">>
    /\ current_task = None /\ remaining_tasks = <<>>
    /\ n_completion = 1

\* C6: once execution_canceled, execution_timed_out or execution_lost has
\* returned, the execution is finished (no current task, no remaining
\* task), so that start_next_task has nothing to start and returns None.
C6_TornDownFinished ==
    torn_down =>
        /\ current_task = None
        /\ remaining_tasks = <<>>
        /\ ~StartGuard(current_task, remaining_tasks)

\* C6 witness: the execution was torn down while the pre-task was the only
\* task started, with the job-task and the post-task still to run.
C6_Witness == torn_down /\ ever_started = {"pre"} /\ ~is_system

\* C7 (as claimed): once a terminal outcome was reported to the store and
\* the reporting operation has returned, there is no current task and no
\* remaining task.
C7_ReportedCleared ==
    reported => current_task = None /\ remaining_tasks = <<>>

\* C8 (as claimed): for every task, has_ended implies has_started.
C8_EndedImpliesStarted ==
    \A t \in TaskIds : has_ended[t] => has_started[t]

\* C8 (amended): for every task, has_ended implies that the task was
\* returned by start_next_task, and a task whose FINISHED update was
\* applied has ended; has_started is set by a RUNNING update only.
C8_EndedImpliesReturned ==
    /\ \A t \in TaskIds : has_ended[t] => t \in ever_started
    /\ \A t \in finished_applied : has_ended[t]

\* C8 witness: a FINISHED update was applied to the pre-task with no RUNNING
\* update before it.
C8_Witness ==
    /\ "pre" \in finished_applied
    /\ has_ended["pre"] /\ ~has_started["pre"]

\* C5: a task_update whose task id is not the id of the current task, or
\* that finds no current task, changes neither current_task nor
\* remaining_tasks nor any lifecycle flag, makes no store call and starts
\* no handler that would make one, whatever its status; and a task whose
\* FINISHED update was applied is not the current task any more, so that a
\* later RUNNING update for it is such a no-op.
C5_MismatchNoOp ==
    /\ [](\A t \in finished_applied : current_task # t)
    /\ [][(/\ last_upd'.bit # last_upd.bit
           /\ (current_task = None \/ current_task # last_upd'.task_id))
          => UNCHANGED <<execVars, taskVars, ingressVars, storeVars, node,
                         n_node_save, row_status>>]_vars

\* C5 witness: a RUNNING update for the pre-task was dispatched after the
\* FINISHED update of the pre-task had been applied, and left it unstarted.
C5_Witness ==
    /\ last_upd.status = "RUNNING" /\ last_upd.task_id = "pre"
    /\ "pre" \in finished_applied
    /\ ~has_started["pre"]
    /\ current_task = "job"

\* C3: the value is_finished() returns is true exactly when, in the state
\* in which it holds the lock, there is no current task and the list of
\* remaining tasks is empty.
C3_IsFinished ==
    [][(sync_pc = "check" /\ sync_pc' = "remove")
       => (fin_ret' <=> (current_task = None /\ remaining_tasks = <<>>))]_vars

\* C3 witness: is_finished() returned true for an execution that ran to
\* completion, and had returned false at an earlier tick.
C3_Witness ==
    /\ sync_pc = "remove" /\ fin_ret
    /\ ~torn_down /\ n_completion = 1
    /\ registry # {}

\* C9 (as claimed): when the failure transaction of a FAILED or KILLED
\* update runs, the node is saved as paused if and only if the count of
\* recent failures is at least max_node_errors, node_error_period is
\* positive, num_exes is at least max_tries and the node is not paused.
C9_PauseIff ==
    [][(\E th \in QuarantineThreads :
            pc[th] = "fail_txn" /\ pc'[th] = "fail_clear")
       => ((node' = PausedNode /\ n_node_save' = n_node_save + 1)
           <=> (/\ q_obs'.num_node_errors >= q_obs'.max_node_errors
                /\ q_obs'.node_error_period > 0
                /\ q_obs'.num_exes >= q_obs'.max_tries
                /\ ~q_obs'.node_is_paused))]_vars

\* C9 (amended): the node is saved as paused (is_paused, is_paused_errors,
\* the pause reason) if and only if, beside the four conditions claimed,
\* the error of the failure (the unknown error when none was determined)
\* has category SYSTEM and the execution has a node; otherwise the node is
\* not written.
C9_PauseIffSystem ==
    [][(\E th \in QuarantineThreads :
            pc[th] = "fail_txn" /\ pc'[th] = "fail_clear")
       => IF /\ q_obs'.category = "SYSTEM"
             /\ q_obs'.node_known
             /\ q_obs'.num_node_errors >= q_obs'.max_node_errors
             /\ q_obs'.node_error_period > 0
             /\ q_obs'.num_exes >= q_obs'.max_tries
             /\ ~q_obs'.node_is_paused
          THEN /\ node' = [is_paused |-> TRUE, is_paused_errors |-> TRUE,
                          pause_reason |-> "System Failure Rate Too High"]
               /\ n_node_save' = n_node_save + 1
          ELSE UNCHANGED <<node, n_node_save>>]_vars

\* C9 witness: a failure with exactly max_node_errors recent failures
\* paused the node.
C9_Witness ==
    /\ pc["u1"] = "fail_clear"
    /\ q_obs # NoQ
    /\ q_obs.category = "SYSTEM" /\ q_obs.node_known
    /\ q_obs.num_node_errors = q_obs.max_node_errors
    /\ node.is_paused /\ node.is_paused_errors
    /\ n_node_save = 1

\* C10: while the sync thread keeps ticking, an execution in the registry
\* whose row is CANCELED or timed out is eventually cleared and out of the
\* registry, and it is never still in the registry when the second tick
\* that started after the condition held has ended.
C10_TornDownWithinTwoTicks ==
    /\ []((registry # {} /\ RowCondition) => ~(age >= 2 /\ sync_pc = "sleep"))
    /\ ((registry # {} /\ RowCondition)
           ~> (registry = {} /\ current_task = None /\ remaining_tasks = <<>>))

\* C10 witness: the tick that started after the row was canceled tore the
\* execution down while a task was running, killed the task and removed
\* the execution from the registry.
C10_Witness ==
    /\ row_status = "CANCELED" /\ age = 1
    /\ torn_down /\ kills # <<>>
    /\ registry = {} /\ cleanup_queue = <<ExeId>>
    /\ sync_pc = "sleep"

\* C11: while only RUNNING and FINISHED updates arrive in order and nothing
\* tears the execution down, handle_job_completion is called at most once,
\* only by the FINISHED of the last task (every task was started before),
\* and exactly once when the execution is finished; the transaction of a
\* FINISHED update reports completion exactly when no task remains, and
\* its publication clears current_task and leaves remaining_tasks alone.
C11_CompletionOnce ==
    /\ [](clean =>
            /\ n_completion <= 1
            /\ (n_completion = 1 => started_seq = all_tasks)
            /\ (/\ current_task = None /\ remaining_tasks = <<>>
                /\ \A th \in OrderedThreads : pc[th] = "idle")
               => (n_completion = 1 /\ finished_applied = Range(all_tasks)))
    /\ [][\A th \in OrderedThreads :
            /\ (clean /\ pc[th] = "complete_txn" /\ pc'[th] # "complete_txn")
               => /\ (n_completion' = n_completion + 1) <=> (remaining_tasks = <<>>)
                  /\ (n_completion' = n_completion) <=> (remaining_tasks # <<>>)
            /\ (/\ clean
                /\ pc[th] \in {"complete_publish", "complete_publish_reported"}
                /\ pc'[th] = "idle")
               => /\ current_task' = None
                  /\ remaining_tasks' = remaining_tasks
                  /\ n_completion' = n_completion]_vars

\* C11 witness: Pre, Job and Post were started and FINISHED in order, with
\* one completion call, and the execution is finished.
C11_Witness ==
    /\ clean /\ ~is_system
    /\ finished_applied = {"pre", "job", "post"}
    /\ n_completion = 1 /\ n_failure = 0 /\ n_checkpoint = 0
    /\ current_task = None /\ remaining_tasks = <<>>
    /\ pc["u1"] = "idle"

\* C12: a LOST update for the current task clears current_task, puts that
\* task at the head of remaining_tasks with the rest unchanged, makes no
\* store call and starts no handler that would make one; the execution is
\* then ready to start, and a start_next_task that starts a task returns
\* the head of remaining_tasks, hence the lost task.
C12_LostRequeues ==
    [][/\ (/\ last_upd'.bit # last_upd.bit
           /\ last_upd'.status = "LOST"
           /\ current_task # None
           /\ current_task = last_upd'.task_id)
          => /\ current_task' = None
             /\ remaining_tasks' = <<current_task>> \o remaining_tasks
             /\ all_tasks' = all_tasks
             /\ UNCHANGED <<storeVars, node, n_node_save, row_status, pc>>
             /\ ~(current_task' # None \/ Len(remaining_tasks') = 0)
       /\ (current_task = None /\ current_task' # None)
          => /\ current_task' = remaining_tasks[1]
             /\ remaining_tasks' = SubSeq(remaining_tasks, 2, Len(remaining_tasks))
      ]_vars

\* C12 witness: the job-task was started and lost, and it is the head of
\* the remaining tasks again, with no store call made.
C12_Witness ==
    /\ last_upd.status = "LOST" /\ last_upd.task_id = "job"
    /\ ~clean /\ n_failure = 0 /\ n_checkpoint = 0 /\ n_completion = 0
    /\ "job" \in ever_started
    /\ current_task = None
    /\ remaining_tasks = <<"job", "post">>
    /\ pc["u1"] = "idle"

\* C13: a FAILED or KILLED update is applied only to a current task; when
\* its handler reaches the lock region the failure is already recorded;
\* and once a failure handler has returned there is no current task and no
\* remaining task, in every later state, so that the execution is finished
\* and start_next_task has nothing to return, wherever in the pipeline the
\* failed task was.
C13_FailDiscardsRest ==
    /\ \A th \in IngressThreads :
          /\ pc[th] \in {"fail_txn", "fail_clear"} => loc_task[th] \in Range(all_tasks)
          /\ pc[th] = "fail_clear"
                => (n_failure >= 1 /\ fail_errors \ {"timeout", "node-lost"} # {})
    /\ (/\ fail_errors \ {"timeout", "node-lost"} # {}
        /\ \A th \in IngressThreads : pc[th] # "fail_clear")
       => /\ current_task = None
          /\ remaining_tasks = <<>>
          /\ ~StartGuard(current_task, remaining_tasks)

\* C13 witness: the pre-task failed; the job-task and the post-task were
\* never started and the execution is finished.
C13_Witness ==
    /\ ~is_system
    /\ n_failure = 1 /\ n_teardown = 0 /\ n_completion = 0
    /\ ever_started = {"pre"}
    /\ current_task = None /\ remaining_tasks = <<>>
    /\ \A th \in IngressThreads : pc[th] = "idle"

\* C14 (as claimed): the error handed to handle_job_failure by a FAILED or
\* KILLED update is never null: when no error was determined it is the
\* built-in unknown error.
C14_ErrorNeverNull == None \notin fail_errors

\* C15: when the task's own classification finds no specific error, the
\* error of a failed task is docker-task-launch if the task never started
\* and uses docker, task-launch if it never started and does not use
\* docker, docker-terminated if it started, uses docker and the reason of
\* the update is REASON_EXECUTOR_TERMINATED, and none in every other case.
C15_GeneralError ==
    [][\A th \in QuarantineThreads :
         (pc[th] = "fail_txn" /\ pc'[th] = "fail_clear" /\ ~q_obs'.determined)
         => fail_errors' = fail_errors \cup
              {CASE ~has_started[loc_task[th]] /\ q_obs'.uses_docker ->
                      "docker-task-launch"
                 [] ~has_started[loc_task[th]] /\ ~q_obs'.uses_docker ->
                      "task-launch"
                 [] /\ has_started[loc_task[th]] /\ q_obs'.uses_docker
                    /\ q_obs'.reason = "REASON_EXECUTOR_TERMINATED" ->
                      "docker-terminated"
                 [] OTHER -> None}]_vars

\* C15 witness: a started docker task failed with the executor-terminated
\* reason and was classified docker-terminated.
C15_Witness ==
    /\ pc["u1"] = "fail_clear"
    /\ q_obs # NoQ
    /\ ~q_obs.determined /\ q_obs.uses_docker
    /\ q_obs.reason = "REASON_EXECUTOR_TERMINATED"
    /\ has_started[loc_task["u1"]]
    /\ fail_errors = {"docker-terminated"}

\* C16: the lock region of execution_canceled, execution_timed_out and
\* execution_lost returns the task that is current when the region is
\* entered (None when no task is current) and leaves no task current.
C16_ReturnsCurrent ==
    [][\A c \in TeardownThreads :
         (td_pc[c] = "clear" /\ td_pc'[c] = "idle")
         => (td_ret'[c] = current_task /\ current_task' = None)]_vars

\* C16 witness: execution_lost returned the job-task, which was running
\* when the node was lost.
C16_Witness ==
    /\ td_ret["node"] = "job"
    /\ td_pc["node"] = "idle" /\ torn_down
    /\ "node-lost" \in fail_errors
    /\ current_task = None

\* C17: the step of execution_timed_out (of execution_lost) that reports
\* to the store makes one handle_job_failure call with the timeout (the
\* node-lost) error while current_task and remaining_tasks are as before;
\* the lock region that follows makes no further call; and a call whose
\* report fails changes neither current_task nor remaining_tasks and
\* records nothing.
C17_ReportThenClear ==
    [][
       /\ \A c \in TeardownThreads :
            ((td_pc[c] = "idle" /\ td_pc'[c] = "clear" /\ n_checkpoint' = n_checkpoint)
               => (/\ n_failure' = n_failure + 1
                   /\ fail_errors' = fail_errors \cup
                         {IF c = "sync" THEN "timeout" ELSE "node-lost"}
                   /\ current_task' = current_task
                   /\ remaining_tasks' = remaining_tasks))
       /\ \A c \in TeardownThreads :
            ((td_pc[c] = "clear" /\ td_pc'[c] = "idle")
               => (n_failure' = n_failure /\ fail_errors' = fail_errors))
       /\ (td_pc' = td_pc /\ n_teardown' # n_teardown)
            => (/\ current_task' = current_task
                /\ remaining_tasks' = remaining_tasks
                /\ n_failure' = n_failure /\ fail_errors' = fail_errors)
      ]_vars

\* C17 witness: execution_timed_out has reported the timeout while the
\* job-task is still current, the lock region not yet entered.
C17_Witness ==
    /\ td_pc["sync"] = "clear"
    /\ fail_errors = {"timeout"} /\ n_failure = 1
    /\ current_task = "job" /\ remaining_tasks = <<"post">>

\* C18: a call of start_next_task makes the head of remaining_tasks the
\* current task, removes it from remaining_tasks and changes only that, in
\* one step, if no task is current and remaining_tasks is not empty;
\* otherwise it changes nothing (and has no task to return). And
\* is_next_task_ready() holds in exactly the states in which a call of
\* start_next_task returns a task.
C18_StartNextTask ==
    /\ [](is_next_task_ready <=> (current_task = None /\ remaining_tasks # <<>>))
    /\ [][start_next_task =>
            IF current_task = None /\ remaining_tasks # <<>>
            THEN /\ current_task' = remaining_tasks[1]
                 /\ remaining_tasks' = SubSeq(remaining_tasks, 2, Len(remaining_tasks))
                 /\ ever_started' = ever_started \cup {remaining_tasks[1]}
                 /\ UNCHANGED <<all_tasks, taskVars, ingressVars, storeVars,
                                node, n_node_save, row_status>>
            ELSE UNCHANGED vars]_vars

\* C18 witness: the pre-task and then the job-task were started, each by
\* one call; the job-task is current and a further call starts nothing.
C18_Witness ==
    /\ clean /\ started_seq = <<"pre", "job">>
    /\ current_task = "job" /\ remaining_tasks = <<"post">>
    /\ ~is_next_task_ready
    /\ \A th \in IngressThreads : pc[th] = "idle"

\* C19: no step of any thread both makes a durable call (a store call such
\* as the locked save, handle_job_completion, handle_job_failure or the node
\* save, or a driver kill) and is a lock region of the execution (a read or a
\* write of its current task and remaining tasks under the lock): the
\* durable calls are made with the lock released.
DurableStep ==
    \/ storeVars' # storeVars
    \/ node' # node
    \/ n_node_save' # n_node_save
    \/ n_teardown' # n_teardown
    \/ kills' # kills

LockStep ==
    \/ current_task' # current_task
    \/ remaining_ref' # remaining_ref
    \/ heap' # heap
    \/ fin_ret' # fin_ret

C19_NoDurableCallUnderLock == [][~(DurableStep /\ LockStep)]_vars

\* The execution timed out, the sync thread reported the failure, cleared
\* the execution under the lock, killed the returned task and saw the
\* execution finished.
C19_Witness ==
    /\ n_failure > 0
    /\ kills # <<>>
    /\ fin_ret
    /\ current_task = None

\* C20: when two threads process FINISHED updates with the same task id,
\* interleaved in any way with each other and with start_next_task, a
\* publication clears current_task only if it still has the id of the update:
\* a successor that has become current stays current, and as long as nothing
\* was lost, failed or torn down every started task that is no longer
\* current has been completed (no task is skipped).
C20_DuplicateFinished ==
    /\ [](clean =>
            \A i \in 1 .. Len(started_seq) :
                started_seq[i] = current_task \/ has_ended[started_seq[i]])
    /\ [][\A th \in IngressThreads :
            (/\ pc[th] \in {"complete_publish", "complete_publish_reported"}
             /\ pc'[th] = "idle")
            => /\ current_task' = IF current_task = loc_task[th]
                                  THEN None ELSE current_task
               /\ remaining_tasks' = remaining_tasks]_vars

\* C20 witness: both threads took the FINISHED update of the pre-task; one
\* has published and the job-task was started; the other is about to
\* publish with the id of the pre-task while the job-task is current.
C20_Witness ==
    /\ clean
    /\ pc["u1"] = "complete_publish"
    /\ loc_task["u1"] = "pre"
    /\ pc["u2"] = "idle"
    /\ "pre" \in finished_applied
    /\ current_task = "job"
    /\ remaining_tasks = <<"post">>

\* C21: the driver's kill is called only by the sync loop, at its kill step,
\* and only in a tick whose row was CANCELED or timed out; the checkpoint of
\* execution_canceled is written only by the sync loop for a CANCELED row;
\* no step of the status-update thread calls kill, cancels the row or
\* checkpoints it.
UpdateStep == pc' # pc \/ has_started' # has_started

C21_KillOnlyBySync ==
    [][
       /\ (kills' # kills) =>
              /\ sync_pc = "kill" /\ sync_pc' = "check"
              /\ sync_row.status = "CANCELED" \/ sync_row.timed_out
              /\ ~UpdateStep
       /\ (n_checkpoint' # n_checkpoint) =>
              /\ sync_pc = "handle" /\ sync_pc' = "clear"
              /\ sync_row.status = "CANCELED"
              /\ ~UpdateStep
       /\ UpdateStep => (row_status' = "CANCELED" => row_status = "CANCELED")
      ]_vars

\* C21 witness: the row was CANCELED while the job-task ran; the sync loop
\* checkpointed it and killed the job-task.
C21_Witness ==
    /\ sync_pc = "check"
    /\ sync_row.status = "CANCELED"
    /\ n_checkpoint = 1
    /\ kills = <<"job">>

\* C22: in a tick the handler (execution_canceled or execution_timed_out)
\* returns the task that was current, or null when none was; the kill step
\* dispatches exactly one kill with the id of the returned task when it is
\* non-null and none when it is null or when no handler was called; kills
\* are dispatched at no other step, so at most one per execution per tick.
C22_KillIffReturned ==
    /\ [](Len(kills) <= 1)
    /\ [][
          /\ (sync_pc = "handle" /\ sync_pc' = "kill") => task_to_kill' = None
          /\ (sync_pc = "clear" /\ sync_pc' = "kill") => task_to_kill' = current_task
          /\ (sync_pc = "kill" /\ sync_pc' = "check") =>
                 kills' = IF task_to_kill = None THEN kills
                          ELSE Append(kills, task_to_kill)
          /\ (kills' # kills) => (sync_pc = "kill" /\ sync_pc' = "check")
         ]_vars

\* C22 witness: the row timed out while the pre-task ran; the handler
\* returned the pre-task and one kill with its id was dispatched.
C22_Witness ==
    /\ sync_pc = "check"
    /\ sync_row.timed_out /\ sync_row.status = "RUNNING"
    /\ task_to_kill = "pre"
    /\ kills = <<"pre">>

\* The handler returned null (no task was current) and the kill step
\* dispatched nothing.
C22_NullReturn ==
    /\ sync_pc = "check"
    /\ torn_down
    /\ task_to_kill = None
    /\ kills = <<>>

\* C23: the sync loop removes the execution from the registry only at the
\* step that follows an is_finished() that returned true, and hands it to the
\* cleanup manager in the same step; a removed execution is finished and is
\* in the cleanup queue exactly once; an execution still in the registry is
\* not in the cleanup queue.
C23_RemoveOnlyFinished ==
    /\ [](/\ NoDuplicates(cleanup_queue)
          /\ (ExeId \in Range(cleanup_queue)) <=> (ExeId \notin registry)
          /\ (ExeId \notin registry) =>
                 (current_task = None /\ remaining_tasks = <<>>))
    /\ [][
          /\ (registry' # registry \/ cleanup_queue' # cleanup_queue) =>
                 /\ sync_pc = "remove" /\ fin_ret
                 /\ registry' = registry \ {ExeId}
                 /\ cleanup_queue' = Append(cleanup_queue, ExeId)
          /\ (sync_pc = "remove" /\ sync_pc' = "sleep" /\ ~fin_ret) =>
                 (registry' = registry /\ cleanup_queue' = cleanup_queue)
          /\ (sync_pc = "check" /\ sync_pc' = "remove") =>
                 (fin_ret' => (current_task = None /\ remaining_tasks = <<>>))
         ]_vars

\* C23 witness: the last task FINISHED, and the next tick found the
\* execution finished, removed it and enqueued it for cleanup.
C23_Witness ==
    /\ n_completion = 1 /\ ~torn_down
    /\ registry = {}
    /\ cleanup_queue = <<ExeId>>
    /\ sync_pc = "sleep"

\* A tick found the execution unfinished and left it in the registry.
C23_NotFinishedKept ==
    /\ sync_pc = "remove" /\ ~fin_ret
    /\ current_task # None
    /\ registry = {ExeId} /\ cleanup_queue = <<>>

\* C24: an execution that finished through the status-update path (no task
\* current, none remaining, not torn down by a handler) and is still in the
\* registry stays finished, has no kill dispatched for it, is seen finished by
\* the check of every tick and is then removed and enqueued for cleanup; with
\* the sync thread ticking it is eventually removed and enqueued.
FinishedByUpdate ==
    /\ current_task = None
    /\ remaining_tasks = <<>>
    /\ ~torn_down

C24_FinishedRemovedNextTick ==
    /\ [][
          /\ (FinishedByUpdate /\ registry # {}) =>
                 /\ kills' = kills
                 /\ current_task' = None /\ remaining_tasks' = <<>>
                 /\ (sync_pc = "clear" /\ sync_pc' = "kill") => task_to_kill' = None
                 /\ (sync_pc = "check" /\ sync_pc' = "remove") => fin_ret'
          /\ (sync_pc = "remove" /\ sync_pc' = "sleep" /\ fin_ret) =>
                 /\ registry' = {}
                 /\ cleanup_queue' = Append(cleanup_queue, ExeId)
         ]_vars
    /\ ((FinishedByUpdate /\ registry # {})
           ~> (registry = {} /\ cleanup_queue = <<ExeId>>))

\* C24 witness: a task FAILED, the failure was published, and a later tick
\* removed the execution and enqueued it with no kill.
C24_Witness ==
    /\ n_failure = 1 /\ ~torn_down
    /\ \A th \in SyncThreads : pc[th] = "idle"
    /\ registry = {}
    /\ cleanup_queue = <<ExeId>>
    /\ kills = <<>>

\* C25: when execution_canceled or execution_timed_out raised a
\* DatabaseError in a tick, the failing step leaves current_task and
\* remaining_tasks unchanged, and in the rest of that tick no kill is
\* dispatched and the execution is neither removed from the registry nor
\* enqueued for cleanup.
C25_HandlerErrorKeepsExecution ==
    [][
       /\ (tick_error' = "database" /\ tick_error # "database") =>
              /\ current_task' = current_task
              /\ remaining_tasks' = remaining_tasks
              /\ task_to_kill' = None
       /\ (tick_error = "database") =>
              /\ kills' = kills
              /\ registry' = registry
              /\ cleanup_queue' = cleanup_queue
      ]_vars

\* The part of C25 that holds: the failing handler changes nothing in memory
\* and no kill is dispatched in the rest of the tick.
C25_HandlerErrorNoKill ==
    [][
       /\ (tick_error' = "database" /\ tick_error # "database") =>
              /\ current_task' = current_task
              /\ remaining_tasks' = remaining_tasks
              /\ task_to_kill' = None
       /\ (tick_error = "database") => kills' = kills
      ]_vars

\* The state C25 misses: the handler raised for a CANCELED row, the
\* execution had already finished through the status-update path, and the
\* tick is about to remove it.
C25_RemovedAfterError ==
    /\ sync_pc = "remove" /\ fin_ret
    /\ tick_error = "database"
    /\ sync_row.status = "CANCELED"
    /\ n_checkpoint = 0

\* C26: an exception raised inside a tick is caught by run(): the step that
\* raises takes the thread to the throttle and the loop check, the thread
\* stops only after shutdown was requested, and after an exception a later
\* tick is started unless shutdown is requested.
C26_ExceptionsCaught ==
    /\ [](sync_pc = "stopped" => ~running)
    /\ [][(n_raise' # n_raise) =>
              /\ sync_pc' = "sleep"
              /\ tick_error' = "exception"
              /\ running' = running]_vars
    /\ ((tick_error = "exception") ~> (tick_error = "none" \/ ~running))

\* C26 witness: a tick raised, and a later tick is in progress.
C26_Witness ==
    /\ n_raise = 1
    /\ tick_error = "none"
    /\ sync_pc = "handle"
    /\ running

\* C27: once shutdown() has cleared the flag it stays cleared; the loop
\* starts no tick at a check that finds it cleared; run() returns only from
\* the loop check, so a tick in flight is not cut short; and run() eventually
\* returns.
C27_Shutdown ==
    /\ [][
          /\ ~running => ~running'
          /\ (sync_pc = "sleep" /\ ~running) =>
                 /\ sync_pc' \in {"sleep", "stopped"}
                 /\ snapshot' = snapshot /\ sync_row' = sync_row
                 /\ n_raise' = n_raise /\ slept' = slept
          /\ (sync_pc # "stopped" /\ sync_pc' = "stopped") =>
                 (sync_pc = "sleep" /\ ~running)
          /\ (sync_pc = "stopped") => (sync_pc' = "stopped")
         ]_vars
    /\ (~running ~> (sync_pc = "stopped"))

\* C27 witness: shutdown() was called while a tick was in flight; the tick
\* went on to find the execution finished and is about to remove it.
C27_Witness ==
    /\ ~running
    /\ sync_pc = "remove" /\ fin_ret
    /\ kills = <<"pre">>

C28_LongTick ==
    /\ sync_pc = "remove"
    /\ elapsed > THROTTLE * TicksPerSecond

\* C29: a task transition whose durable write fails leaves the execution as
\* it was: current_task, remaining_tasks and the lifecycle flags of the tasks
\* are unchanged by the failing step.
C29_FailedWriteKeepsState ==
    [][\A th \in TxnErrThreads :
          (pc[th] \in {"complete_txn", "fail_txn"} /\ pc'[th] = "idle") =>
              /\ current_task' = current_task
              /\ remaining_tasks' = remaining_tasks
              /\ has_started' = has_started
              /\ has_ended' = has_ended]_vars

\* The part of C29 that holds: the failing step leaves current_task and
\* remaining_tasks as they were.
C29_FailedWriteKeepsTasks ==
    [][\A th \in TxnErrThreads :
          (pc[th] \in {"complete_txn", "fail_txn"} /\ pc'[th] = "idle") =>
              /\ current_task' = current_task
              /\ remaining_tasks' = remaining_tasks]_vars

\* The state C29 misses: the write of the last FINISHED failed; the
\* post-task is still current and already has _has_ended set.
C29_EndedButCurrent ==
    /\ current_task = "post"
    /\ has_ended["post"]
    /\ n_completion = 0
    /\ \A th \in TxnErrThreads : pc[th] = "idle"

\* C30: the i-th call of the process-wide counter to return, from whatever
\* thread, returns i (1, 2, 3, ... with no gap and no repeat); the counter
\* never decreases; and no two cleanup tasks have the same task id.
C30_CounterDistinct ==
    /\ [](/\ \A i \in 1 .. Len(cleanup_tasks) : cleanup_tasks[i].n = i
          /\ \A i, j \in 1 .. Len(cleanup_tasks) :
                 (cleanup_tasks[i].task_id = cleanup_tasks[j].task_id) => i = j)
    /\ [][counter' >= counter]_vars

\* C30 witness: three cleanup tasks were constructed; the first for
\* framework "f" (id scale_cleanup_f_1), the third for framework "f_1"
\* (id scale_cleanup_f_1_3).
C30_Witness ==
    /\ Len(cleanup_tasks) = 3
    /\ cleanup_tasks[3].task_id = <<"scale_cleanup", "_", "f", "_", "1", "_", "3">>
    /\ cleanup_tasks[1].task_id = <<"scale_cleanup", "_", "f", "_", "1">>

\* C31: a cleanup task is an initial cleanup exactly when it was constructed
\* with no job executions; then its command lists all non-running containers
\* and all dangling volumes with no filter; otherwise the two listings are
\* piped through grep with exactly the container names and the docker volumes
\* of the given executions, in order; the command of a constructed task never
\* changes.
IndexOf(s, x) == CHOOSE i \in 1 .. Len(s) : s[i] = x /\ \A j \in 1 .. (i - 1) : s[j] # x
ContainerPart(cmd) ==
    SubSeq(cmd, IndexOf(cmd, "for cont in ") + 2,
           IndexOf(cmd, "; do docker rm $cont; done") - 2)
VolumePart(cmd) ==
    SubSeq(cmd, IndexOf(cmd, "for vol in ") + 2,
           IndexOf(cmd, "; do docker volume rm $vol; done") - 2)
IsName(x) == x # " -e "
NamedContainers(e) == SelectSeq(e.container_names, LAMBDA x : x # None)
ExpectedContainers(job_exes) ==
    CASE Len(job_exes) = 1 -> NamedContainers(job_exes[1])
      [] Len(job_exes) = 2 -> NamedContainers(job_exes[1]) \o NamedContainers(job_exes[2])
      [] OTHER -> <<>>
ExpectedVolumes(job_exes) ==
    CASE Len(job_exes) = 1 -> job_exes[1].docker_volumes
      [] Len(job_exes) = 2 -> job_exes[1].docker_volumes \o job_exes[2].docker_volumes
      [] OTHER -> <<>>
FilteredBy(part, listing, names) ==
    /\ Len(part) = Len(listing) + 1
                       + (IF names = <<>> THEN 0 ELSE 2 * Len(names) - 1)
    /\ SubSeq(part, 1, Len(listing)) = listing
    /\ part[Len(listing) + 1] = " | grep -e "
    /\ SelectSeq(SubSeq(part, Len(listing) + 2, Len(part)), IsName) = names
    /\ \A i \in 1 .. (Len(names) - 1) : part[Len(listing) + 1 + 2 * i] = " -e "

C31_CleanupCommand ==
    /\ [](\A i \in 1 .. Len(cleanup_tasks) :
            LET t == cleanup_tasks[i]
            IN /\ t.is_initial_cleanup <=> (t.job_exes = <<>>)
               /\ t.is_initial_cleanup =>
                      /\ ContainerPart(t.command) = AllNonrunningContainersCmd
                      /\ VolumePart(t.command) = AllDanglingVolumesCmd
               /\ ~t.is_initial_cleanup =>
                      /\ FilteredBy(ContainerPart(t.command), AllNonrunningContainersCmd,
                                    ExpectedContainers(t.job_exes))
                      /\ FilteredBy(VolumePart(t.command), AllDanglingVolumesCmd,
                                    ExpectedVolumes(t.job_exes)))
    /\ [][\A i \in 1 .. Len(cleanup_tasks) : cleanup_tasks'[i] = cleanup_tasks[i]]_vars

\* C31 witness: an initial cleanup task and a task for two executions were
\* constructed.
C31_Witness ==
    /\ Len(cleanup_tasks) = 2
    /\ cleanup_tasks[1].job_exes = <<>>
    /\ cleanup_tasks[1].is_initial_cleanup
    /\ cleanup_tasks[2].job_exes = <<CleanupExeB, CleanupExeA>>
    /\ ~cleanup_tasks[2].is_initial_cleanup

\* A cleanup task for an execution without names: the listings are piped
\* through grep with no pattern.
C31_NoNames ==
    /\ Len(cleanup_tasks) = 1
    /\ cleanup_tasks[1].job_exes = <<CleanupExeC>>
    /\ ~cleanup_tasks[1].is_initial_cleanup

\* C32: whatever state a task is in, applying a FINISHED update with the
\* task's id sets has_ended and takes ended, exit_code and
\* last_status_update from the update; applying the same update again leaves
\* the task as it is after the first application; an update with another
\* task id changes nothing.
C32_CompleteIdempotent ==
    /\ [](\A t \in TaskIds, u \in FinishedUpdates :
            LET once == complete(task_obj[t], t, u)
                twice == complete(once, t, u)
            IN /\ twice = once
               /\ (u.task_id = t) =>
                      /\ once.has_ended
                      /\ once.ended = u.timestamp
                      /\ once.exit_code = u.exit_code
                      /\ once.last_status_update = u.timestamp
               /\ (u.task_id # t) => once = task_obj[t])
    /\ [][\A t \in TaskIds :
            (task_obj'[t] # task_obj[t]) =>
                \E u \in FinishedUpdates :
                    /\ u.task_id = t
                    /\ task_obj'[t].has_ended
                    /\ task_obj'[t].ended = u.timestamp
                    /\ task_obj'[t].exit_code = u.exit_code
                    /\ task_obj'[t].last_status_update = u.timestamp]_vars

\* C32 witness: the job-task was completed with exit code 1 at time 2, the
\* pre-task was completed at time 1, and the post-task, for which no update
\* with its id was applied, is as constructed.
C32_Witness ==
    /\ task_obj["job"] = [has_ended |-> TRUE, ended |-> 2, exit_code |-> 1,
                          last_status_update |-> 2]
    /\ task_obj["pre"].has_ended /\ task_obj["pre"].ended = 1
    /\ task_obj["post"] = NewTask

\* C33: a step that dispatches a RUNNING update carrying the id of the
\* current task makes no durable store call (no completion, failure or
\* checkpoint, no node save, no row change), leaves current_task, the
\* remaining tasks and every has_ended flag as they are and leaves the thread
\* outside any handler; the only change is has_started of the current task,
\* and applying the same update to the resulting state changes nothing.
C33_MatchingRunning ==
    /\ last_upd' # last_upd
    /\ last_upd'.status = "RUNNING"
    /\ last_upd'.task_id = current_task

C33_RunningFrame ==
    [][
       C33_MatchingRunning =>
           /\ storeVars' = storeVars
           /\ nodeVars' = nodeVars
           /\ rowVars' = rowVars
           /\ execVars' = execVars
           /\ remaining_tasks' = remaining_tasks
           /\ has_ended' = has_ended
           /\ pc' = pc
           /\ \A t \in TaskIds \ {current_task} : has_started'[t] = has_started[t]
           /\ has_started'[current_task]
           /\ TaskUpdate(has_started', current_task',
                         [task_id |-> last_upd'.task_id, status |-> "RUNNING"])
                  = has_started'
      ]_vars

\* C33 witness: the job-task is current and started, the last update
\* dispatched was RUNNING for the job-task, the post-task is still remaining
\* and nothing was reported to the store.
C33_Witness ==
    /\ current_task = "job"
    /\ has_started["job"]
    /\ last_upd.status = "RUNNING" /\ last_upd.task_id = "job"
    /\ remaining_tasks = <<"post">>
    /\ n_completion = 0 /\ n_failure = 0 /\ n_checkpoint = 0

\* C34: when the sync thread handles the row it read, a CANCELED row gets
\* the cancellation only (one checkpoint save, no failure report), also when
\* the row is timed out as well; a row that is not CANCELED and is timed out
\* gets the timeout only (one failure report with the timeout error, no
\* checkpoint save); a row that is neither gets no handler: the store is
\* untouched and the thread goes straight on to the kill test with no task.
C34_HandleStep == sync_pc = "handle" /\ sync_pc' # "handle"

C34_CanceledFirst ==
    [][
       C34_HandleStep =>
           /\ (sync_row.status = "CANCELED") =>
                  /\ n_checkpoint' = n_checkpoint + 1
                  /\ n_failure' = n_failure
                  /\ fail_errors' = fail_errors
                  /\ sync_pc' = "clear"
           /\ (sync_row.status # "CANCELED" /\ sync_row.timed_out) =>
                  /\ n_failure' = n_failure + 1
                  /\ "timeout" \in fail_errors'
                  /\ n_checkpoint' = n_checkpoint
                  /\ sync_pc' = "clear"
           /\ (sync_row.status # "CANCELED" /\ ~sync_row.timed_out) =>
                  /\ storeVars' = storeVars
                  /\ row_status' = row_status
                  /\ task_to_kill' = None
                  /\ sync_pc' = "kill"
      ]_vars

\* C34 witness: the row read in this tick is CANCELED and timed out; the
\* sync thread has saved the checkpoint of the cancellation and no failure
\* was ever reported.
C34_Witness ==
    /\ sync_row.status = "CANCELED"
    /\ sync_row.timed_out
    /\ sync_pc = "clear"
    /\ n_checkpoint = 1
    /\ n_failure = 0

\* C35 (as claimed): handle_job_completion and handle_job_failure are
\* together called at most once for the execution.
C35_AtMostOneTerminal == n_completion + n_failure <= 1

\* The state C35 misses: the execution was reported completed by the update
\* thread and failed by the sync thread's execution_timed_out.
C35_CompletedAndFailed ==
    /\ sync_row.status = "RUNNING" /\ sync_row.timed_out
    /\ n_completion = 1
    /\ n_failure = 1
    /\ fail_errors = {"timeout"}

\* Another state C35 misses: the failure of the execution was reported
\* twice, once for the FAILED update and once for the timeout.
C35_FailedTwice ==
    /\ sync_row.status = "RUNNING" /\ sync_row.timed_out
    /\ n_completion = 0
    /\ n_failure = 2
    /\ "timeout" \in fail_errors

\* C36 (as claimed): a step that calls handle_job_completion leaves every
\* task of all_tasks ended.
C36_CompletionWhenAllEnded ==
    [][
       (n_completion' # n_completion) =>
           \A i \in 1 .. Len(all_tasks) : has_ended'[all_tasks[i]]
      ]_vars

\* The state C36 misses: completion was reported while the post-task is
\* current and has not ended.
C36_CompletedWhilePostRuns ==
    /\ n_completion = 1
    /\ n_failure = 0
    /\ current_task = "post"
    /\ ~has_ended["post"]
    /\ ~torn_down

\* C37: no step leads from a state in which is_finished() holds (no current
\* task, no remaining task) to a state in which it does not, whatever the
\* operation and whatever handlers are in flight in other threads.
C37_FinishedAbsorbing ==
    [][
       is_finished =>
           /\ current_task' = None
           /\ remaining_tasks' = <<>>
      ]_vars

\* C37 witness: the execution finished by the FINISHED update of its last
\* task, and afterwards the node was lost: execution_lost reported and
\* cleared; the execution is still finished.
C37_Witness ==
    /\ is_finished
    /\ n_completion = 1
    /\ "node-lost" \in fail_errors
    /\ torn_down
    /\ has_ended["post"]

\* C38: the steps of execution_canceled() (the save of the locked row, then
\* the lock region) call neither handle_job_completion nor handle_job_failure
\* and leave the status of the row, the reported errors and the node as they
\* are; the first step is exactly one save of the row and the second makes no
\* store call.
C38_CanceledStep ==
    /\ sync_row.status = "CANCELED"
    /\ sync_pc \in {"handle", "clear"}
    /\ sync_pc' # sync_pc

C38_CanceledOnlySaves ==
    [][
       C38_CanceledStep =>
           /\ n_completion' = n_completion
           /\ n_failure' = n_failure
           /\ fail_errors' = fail_errors
           /\ row_status' = row_status
           /\ nodeVars' = nodeVars
           /\ (sync_pc = "handle") => n_checkpoint' = n_checkpoint + 1
           /\ (sync_pc = "clear") => n_checkpoint' = n_checkpoint
      ]_vars

\* C38 witness: execution_canceled() has returned in this tick: the row is
\* still CANCELED, it was saved once, nothing was reported, and the
\* execution is cleared.
C38_Witness ==
    /\ sync_row.status = "CANCELED"
    /\ sync_pc = "kill"
    /\ torn_down
    /\ row_status = "CANCELED"
    /\ n_checkpoint = 1
    /\ n_completion = 0
    /\ n_failure = 0
    /\ fail_errors = {}

====
